---- MODULE Spec2Model ----
(***************************************************************************)
(* Model of the repository-chat backend (backend/bolt_app.py and its       *)
(* variants): the chunker, the structure extractor, the per-conversation   *)
(* vector-store partition and the retrieval step of generate_response.     *)
(*                                                                         *)
(* Text is modelled character by character on TLA+ strings (Len, SubSeq    *)
(* and \o), so that splitting, joining, stripping and the regular          *)
(* expressions are computed the way the Python code computes them.         *)
(***************************************************************************)
EXTENDS Integers, Sequences, FiniteSets, TLC

(***************************************************************************)
(* Python string primitives                                                *)
(***************************************************************************)

\* Absent regex group (None); a present group of these patterns is never empty.
None == ""

Min(a, b) == IF a < b THEN a ELSE b

\* s[i] for a 1-based index, "" when out of range (a regex then fails there)
Char(s, i) == IF i >= 1 /\ i <= Len(s) THEN SubSeq(s, i, i) ELSE ""

\* s[i-1:] (1-based i)
From(s, i) == IF i > Len(s) THEN "" ELSE SubSeq(s, i, Len(s))

\* s[:n]
Prefix(s, n) == IF n <= 0 THEN "" ELSE SubSeq(s, 1, Min(n, Len(s)))

UpperS == "ABCDEFGHIJKLMNOPQRSTUVWXYZ"
LowerS == "abcdefghijklmnopqrstuvwxyz"
DigitS == "0123456789"

CharsOf(s) == { SubSeq(s, i, i) : i \in 1..Len(s) }

SpaceChars == {" ", "\t", "\n", "\r"}
UpperChars == CharsOf(UpperS)
NameStartChars == CharsOf(UpperS) \cup CharsOf(LowerS) \cup {"_"}
WordChars == NameStartChars \cup CharsOf(DigitS)

\* \s
IsSpace(ch) == ch \in SpaceChars

\* \w
IsWord(ch) == ch \in WordChars

\* [a-zA-Z_]
IsNameStart(ch) == ch \in NameStartChars

LowerChar(ch) ==
    IF ch \in UpperChars
    THEN LET i == CHOOSE k \in 1..Len(UpperS) : SubSeq(UpperS, k, k) = ch
         IN  SubSeq(LowerS, i, i)
    ELSE ch

RECURSIVE lower(_)
\* str.lower()
lower(s) == IF s = "" THEN "" ELSE LowerChar(Char(s, 1)) \o lower(From(s, 2))

\* the literal k stands at position i of s
Lit(s, i, k) == i + Len(k) - 1 <= Len(s) /\ SubSeq(s, i, i + Len(k) - 1) = k

\* k in s
Contains(s, k) == \E i \in 1..(Len(s) + 1) : Lit(s, i, k)

RECURSIVE SkipSpace(_, _)
\* position after the greedy \s* that starts at i
SkipSpace(s, i) == IF IsSpace(Char(s, i)) THEN SkipSpace(s, i + 1) ELSE i

RECURSIVE SkipWord(_, _)
\* position after the greedy \w* that starts at i
SkipWord(s, i) == IF IsWord(Char(s, i)) THEN SkipWord(s, i + 1) ELSE i

\* bool(s.strip()): s holds a character that is not whitespace
strip_nonempty(s) == \E i \in 1..Len(s) : ~IsSpace(Char(s, i))

RECURSIVE Find(_, _, _)
\* position of the first sep at or after i, Len(s) + 1 when there is none
Find(s, sep, i) == IF i > Len(s) \/ SubSeq(s, i, i) = sep THEN i ELSE Find(s, sep, i + 1)

RECURSIVE split_from(_, _, _)
split_from(s, sep, i) ==
    LET k == Find(s, sep, i)
    IN  IF k > Len(s) THEN <<From(s, i)>>
        ELSE <<IF k > i THEN SubSeq(s, i, k - 1) ELSE "">> \o split_from(s, sep, k + 1)

\* s.split(sep) for a one-character separator; never the empty sequence
split(s, sep) == split_from(s, sep, 1)

RECURSIVE join(_, _)
\* sep.join(parts)
join(parts, sep) ==
    IF parts = <<>> THEN ""
    ELSE IF Len(parts) = 1 THEN parts[1]
    ELSE parts[1] \o sep \o join(Tail(parts), sep)

\* parts[a:b] of a Python list (0-based, end exclusive)
Slice(parts, a, b) == SubSeq(parts, a + 1, Min(b, Len(parts)))

\* os.path.basename: what follows the last "/"
basename(p) == LET parts == split(p, "/") IN parts[Len(parts)]

(***************************************************************************)
(* Structure Extractor: bolt_app.py extract_functions_and_classes          *)
(***************************************************************************)

\* kw\s+(\w+) at position j: the end position and the captured word
KwName(line, j, kw) ==
    LET a == j + Len(kw)
        b == SkipSpace(line, a)
        e == SkipWord(line, b)
    IN  IF Lit(line, j, kw) /\ b > a /\ e > b
        THEN {[end |-> e, word |-> SubSeq(line, b, e - 1)]}
        ELSE {}

\* the first non-empty set of a list of alternatives (regex backtracking order)
FirstOf(alts) ==
    IF \E i \in 1..Len(alts) : alts[i] # {}
    THEN alts[CHOOSE i \in 1..Len(alts) : alts[i] # {} /\ \A k \in 1..(i - 1) : alts[k] = {}]
    ELSE {}

\* r'^\s*(def|class)\s+(\w+)'
python_pattern(line) ==
    LET j == SkipSpace(line, 1)
        Alt(kw) == { [g0 |-> Prefix(line, m.end - 1), g1 |-> kw, g2 |-> m.word] :
                     m \in KwName(line, j, kw) }
    IN  FirstOf(<<Alt("def"), Alt("class")>>)

\* r'^\s*(function|class)\s+(\w+)|^\s*(\w+)\s*=\s*(async\s*)?function'
javascript_pattern(line) ==
    LET j == SkipSpace(line, 1)
        Alt1(kw) == { [g0 |-> Prefix(line, m.end - 1), g1 |-> kw, g2 |-> m.word] :
                      m \in KwName(line, j, kw) }
        e1 == SkipWord(line, j)
        k  == SkipSpace(line, e1)
        k2 == SkipSpace(line, k + 1)
        k3 == SkipSpace(line, k2 + Len("async"))
        Tail2(p) == IF e1 > j /\ Char(line, k) = "=" /\ Lit(line, p, "function")
                    THEN {[g0 |-> Prefix(line, p + Len("function") - 1), g1 |-> None, g2 |-> None]}
                    ELSE {}
        WithAsync == IF Lit(line, k2, "async") THEN Tail2(k3) ELSE {}
    IN  FirstOf(<<Alt1("function"), Alt1("class"), WithAsync, Tail2(k2)>>)

JavaModifiers == <<"public", "private", "protected">>
JavaTypeKeywords == <<"class", "interface", "enum">>

\* r'^\s*(public|private|protected)?\s*(static\s+)?(class|interface|enum)\s+(\w+)
\*   |^\s*(public|private|protected)?\s*(static\s+)?\w+\s+(\w+)\s*\('
java_pattern(line) ==
    LET j0 == SkipSpace(line, 1)
        \* positions after the optional modifier, the modifier first (greedy ?)
        ModAlts == [i \in 1..(Len(JavaModifiers) + 1) |->
                      IF i <= Len(JavaModifiers)
                      THEN IF Lit(line, j0, JavaModifiers[i])
                           THEN {[mod |-> JavaModifiers[i], pos |-> j0 + Len(JavaModifiers[i])]}
                           ELSE {}
                      ELSE {[mod |-> None, pos |-> j0]}]
        \* positions after \s*(static\s+)?, the group taken first
        StaticAlts(p) ==
            LET j2 == SkipSpace(line, p)
                a  == j2 + Len("static")
                j3 == SkipSpace(line, a)
            IN  <<IF Lit(line, j2, "static") /\ j3 > a
                  THEN {[static |-> SubSeq(line, j2, j3 - 1), pos |-> j3]} ELSE {},
                  {[static |-> None, pos |-> j2]}>>
        \* (class|interface|enum)\s+(\w+)
        Rest1(m, s) == FirstOf([i \in 1..Len(JavaTypeKeywords) |->
                         { [g0 |-> Prefix(line, r.end - 1), g1 |-> m.mod, g2 |-> s.static] :
                           r \in KwName(line, s.pos, JavaTypeKeywords[i]) }])
        \* \w+\s+(\w+)\s*\(
        Rest2(m, s) ==
            LET a == SkipWord(line, s.pos)
                b == SkipSpace(line, a)
                c == SkipWord(line, b)
                d == SkipSpace(line, c)
            IN  IF a > s.pos /\ b > a /\ c > b /\ Char(line, d) = "("
                THEN {[g0 |-> Prefix(line, d), g1 |-> None, g2 |-> None]}
                ELSE {}
        Try(Rest(_, _)) ==
            FirstOf([i \in 1..Len(ModAlts) |->
                UNION { FirstOf([k \in 1..2 |->
                            UNION { Rest(m, s) : s \in StaticAlts(m.pos)[k] }]) :
                        m \in ModAlts[i] }])
    IN  FirstOf(<<Try(Rest1), Try(Rest2)>>)

\* patterns.items(), in insertion order
Languages == <<"python", "javascript", "java">>

pattern_match(lang, line) ==
    CASE lang = "python"     -> python_pattern(line)
      [] lang = "javascript" -> javascript_pattern(line)
      [] lang = "java"       -> java_pattern(line)

\* the first language whose pattern matches the line (0: none)
first_language(line) ==
    IF \E i \in 1..Len(Languages) : pattern_match(Languages[i], line) # {}
    THEN CHOOSE i \in 1..Len(Languages) :
            /\ pattern_match(Languages[i], line) # {}
            /\ \A k \in 1..(i - 1) : pattern_match(Languages[k], line) = {}
    ELSE 0

DefaultStructureType == "function"

\* match.group(1) if match.group(1) else 'function'
structure_type(m) == IF m.g1 # None THEN m.g1 ELSE DefaultStructureType

\* match.group(2) if match.group(2) else match.group(0)
structure_name(m) == IF m.g2 # None THEN m.g2 ELSE m.g0

\* the structure opened by line number i (0-based) of lines
new_structure(lines, i) ==
    LET line == lines[i + 1]
        li   == first_language(line)
        m    == CHOOSE x \in pattern_match(Languages[li], line) : TRUE
    IN  [type |-> structure_type(m), name |-> structure_name(m),
         start_line |-> i + 1, content |-> line, language |-> Languages[li]]

\* variant: a region is closed one line late
close_structure_late(cur, e) ==
    [type |-> cur.type, name |-> cur.name, start_line |-> cur.start_line,
     content |-> cur.content, language |-> cur.language,
     end_line |-> e + 1]

close_structure(cur, e) ==
    [type |-> cur.type, name |-> cur.name, start_line |-> cur.start_line,
     content |-> cur.content, language |-> cur.language, end_line |-> e]

RECURSIVE extract_loop(_, _, _, _)
\* the for loop over enumerate(lines), from index i (0-based);
\* current is <<>> (None) or <<structure>>
extract_loop(lines, i, structures, current) ==
    IF i >= Len(lines)
    THEN IF current # <<>>
         THEN Append(structures, close_structure(current[1], Len(lines)))
         ELSE structures
    ELSE IF first_language(lines[i + 1]) # 0
         THEN extract_loop(lines, i + 1,
                  IF current # <<>> THEN Append(structures, close_structure(current[1], i))
                                    ELSE structures,
                  <<new_structure(lines, i)>>)
         ELSE extract_loop(lines, i + 1, structures, current)

extract_functions_and_classes(content) ==
    extract_loop(split(content, "\n"), 0, <<>>, <<>>)

(***************************************************************************)
(* Chunker: bolt_app.py create_chunks (the second definition, which is the *)
(* one bound to the name at import time)                                   *)
(***************************************************************************)

\* a 'code_block' chunk dict (no 'name' key)
code_block(chunk_content, file_path, start_line, end_line) ==
    [content |-> chunk_content, file_path |-> file_path,
     start_line |-> start_line, end_line |-> end_line, type |-> "code_block"]

\* the chunk dict of a function or class
structure_chunk(lines, file_path, structure) ==
    [content |-> join(Slice(lines, structure.start_line - 1, structure.end_line), "\n"),
     file_path |-> file_path,
     start_line |-> structure.start_line, end_line |-> structure.end_line,
     type |-> structure.type, name |-> structure.name]

\* variant: the code before a structure is kept even when it is blank
keep_code_before_always(chunk_content) == TRUE

\* the code before a structure is kept as a chunk only if chunk_content.strip()
keep_code_before(chunk_content) == strip_nonempty(chunk_content)

\* lines 320-329: the chunk for the code before the current structure, if any
chunks_before(lines, file_path, current_pos, structure) ==
    IF structure.start_line - 1 > current_pos
    THEN LET chunk_content == join(Slice(lines, current_pos, structure.start_line - 1), "\n")
         IN  IF keep_code_before(chunk_content)
             THEN <<code_block(chunk_content, file_path, current_pos + 1, structure.start_line - 1)>>
             ELSE <<>>
    ELSE <<>>

\* lines 344-354: the remaining code after the last structure, if any
chunks_after(lines, file_path, current_pos) ==
    IF current_pos < Len(lines)
    THEN LET chunk_content == join(Slice(lines, current_pos, Len(lines)), "\n")
         IN  IF strip_nonempty(chunk_content)
             THEN <<code_block(chunk_content, file_path, current_pos + 1, Len(lines))>>
             ELSE <<>>
    ELSE <<>>

RECURSIVE structure_loop(_, _, _, _, _, _)
\* lines 318-354: the loop over structures, from the k-th one
structure_loop(lines, file_path, structures, k, chunks, current_pos) ==
    IF k > Len(structures)
    THEN chunks \o chunks_after(lines, file_path, current_pos)
    ELSE structure_loop(lines, file_path, structures, k + 1,
             chunks \o chunks_before(lines, file_path, current_pos, structures[k])
                    \o <<structure_chunk(lines, file_path, structures[k])>>,
             structures[k].end_line)

\* variant: closes the chunk already when the line fills it exactly
exceeds_chunk_size_inclusive(current_length, line, chunk_size) ==
    current_length + Len(line) >= chunk_size

\* line 362: adding this line would exceed the chunk size
exceeds_chunk_size(current_length, line, chunk_size) ==
    current_length + Len(line) > chunk_size

\* variant: start line one too low
closed_start_line_off_by_one(i, current_chunk) == i - Len(current_chunk)

\* line 367: start line of the chunk closed before line index i (0-based)
closed_start_line(i, current_chunk) == i - Len(current_chunk) + 1

\* line 375: the running length after appending a line
next_length(current_length, line) == current_length + Len(line) + 1

RECURSIVE size_loop(_, _, _, _, _, _, _)
\* lines 361-385: the size-based loop over enumerate(lines), from index i (0-based)
size_loop(lines, file_path, chunk_size, i, chunks, current_chunk, current_length) ==
    IF i >= Len(lines)
    THEN IF current_chunk # <<>>
         THEN Append(chunks, code_block(join(current_chunk, "\n"), file_path,
                                        Len(lines) - Len(current_chunk) + 1, Len(lines)))
         ELSE chunks
    ELSE LET line == lines[i + 1]
         IN  IF exceeds_chunk_size(current_length, line, chunk_size) /\ current_chunk # <<>>
             THEN size_loop(lines, file_path, chunk_size, i + 1,
                      Append(chunks, code_block(join(current_chunk, "\n"), file_path,
                                                closed_start_line(i, current_chunk), i)),
                      <<line>>, next_length(0, line))
             ELSE size_loop(lines, file_path, chunk_size, i + 1, chunks,
                      Append(current_chunk, line), next_length(current_length, line))

create_chunks(content, file_path, chunk_size) ==
    LET structures == extract_functions_and_classes(content)
        lines      == split(content, "\n")
    IN  IF structures # <<>>
        THEN structure_loop(lines, file_path, structures, 1, <<>>, 0)
        ELSE size_loop(lines, file_path, chunk_size, 0, <<>>, <<>>, 0)

(***************************************************************************)
(* Chunker with a file header: 2app_enh_rag.py create_chunks               *)
(***************************************************************************)

HeaderOverviewChars == 200

StructureMarkers == <<"class ", "def ", "function ", "@app.route", "public class">>

has_marker(line) == \E k \in 1..Len(StructureMarkers) : Contains(line, StructureMarkers[k])

\* variant: the overview is not cut at HeaderOverviewChars
header_chunk_untruncated(content, file_path) ==
    [content |-> "File: " \o file_path \o "\nName: " \o basename(file_path)
                 \o "\nContent Overview:\n" \o content \o "...",
     file_path |-> file_path, file_name |-> basename(file_path),
     chunk_type |-> "header", start_line |-> 0, end_line |-> 0]

\* lines 134-142: the file header chunk
header_chunk(content, file_path) ==
    [content |-> "File: " \o file_path \o "\nName: " \o basename(file_path)
                 \o "\nContent Overview:\n" \o Prefix(content, HeaderOverviewChars) \o "...",
     file_path |-> file_path, file_name |-> basename(file_path),
     chunk_type |-> "header", start_line |-> 0, end_line |-> 0]

enh_code_block(chunk_text, file_path, start_line, end_line) ==
    [content |-> chunk_text, file_path |-> file_path, file_name |-> basename(file_path),
     chunk_type |-> "code_block", start_line |-> start_line, end_line |-> end_line]

RECURSIVE enh_loop(_, _, _, _, _, _, _, _)
\* lines 151-200: the loop over enumerate(lines, 1), from line number i (1-based);
\* st holds current_chunk, current_length, current_start_line and in_function or in_class
enh_loop(lines, file_path, chunk_size, i, chunks, current_chunk, current_length, st) ==
    IF i > Len(lines)
    THEN IF current_chunk # <<>>
         THEN Append(chunks, enh_code_block(join(current_chunk, "\n"), file_path,
                                            st.current_start_line, Len(lines)))
         ELSE chunks
    ELSE LET line    == lines[i]
             marker  == has_marker(line)
             \* lines 155-167: a structural element closes the chunk of the previous one
             flush1  == marker /\ st.in_structure /\ current_chunk # <<>>
             chunks1 == IF flush1
                        THEN Append(chunks, enh_code_block(join(current_chunk, "\n"), file_path,
                                                           st.current_start_line, i - 1))
                        ELSE chunks
             cur1    == IF flush1 THEN <<>> ELSE current_chunk
             len1    == IF flush1 THEN 0 ELSE current_length
             start1  == IF flush1 THEN i ELSE st.current_start_line
             \* lines 169-170
             in1     == IF marker
                        THEN Contains(line, "def ") \/ Contains(line, "function ")
                             \/ Contains(line, "class ")
                        ELSE st.in_structure
             \* lines 173-185: chunk size limit
             flush2  == len1 + Len(line) > chunk_size /\ cur1 # <<>>
             chunks2 == IF flush2
                        THEN Append(chunks1, enh_code_block(join(cur1, "\n"), file_path,
                                                            start1, i - 1))
                        ELSE chunks1
             cur2    == IF flush2 THEN <<>> ELSE cur1
             len2    == IF flush2 THEN 0 ELSE len1
             start2  == IF flush2 THEN i ELSE start1
         IN  enh_loop(lines, file_path, chunk_size, i + 1, chunks2,
                      Append(cur2, line), len2 + Len(line) + 1,
                      [current_start_line |-> start2, in_structure |-> in1])

enh_create_chunks(content, file_path, chunk_size) ==
    enh_loop(split(content, "\n"), file_path, chunk_size, 1,
             <<header_chunk(content, file_path)>>, <<>>, 0,
             [current_start_line |-> 1, in_structure |-> FALSE])

(***************************************************************************)
(* File filter: bolt_app.py is_code_file, is_binary_or_large_file          *)
(***************************************************************************)

CodeExtensions ==
    { ".py", ".java", ".cpp", ".c", ".cs", ".go", ".rb", ".php",
      ".js", ".jsx", ".ts", ".tsx", ".vue", ".svelte",
      ".html", ".css", ".scss", ".sass",
      ".json", ".yaml", ".yml", ".toml", ".ini",
      ".tf", ".hcl", "Dockerfile", ".dockerignore", ".md" }

BuildFileNames == {"Dockerfile", "docker-compose.yml", "docker-compose.yaml"}

RECURSIVE FindLast(_, _, _)
\* position of the last ch at or before i, 0 when there is none
FindLast(s, ch, i) == IF i < 1 \/ SubSeq(s, i, i) = ch THEN i ELSE FindLast(s, ch, i - 1)

\* os.path.splitext(p)[1]: from the last dot of the base name, unless only
\* dots precede it
splitext_ext(p) ==
    LET name == basename(p)
        k    == FindLast(name, ".", Len(name))
    IN  IF k >= 1 /\ \E i \in 1..(k - 1) : Char(name, i) # "."
        THEN From(name, k)
        ELSE ""

is_code_file(path) ==
    IF basename(path) \in BuildFileNames THEN TRUE
    ELSE lower(splitext_ext(path)) \in CodeExtensions

MaxSizeMb == 1

\* variant: a file whose size is exactly the ceiling is turned down
is_binary_or_large_file_at_ceiling(file) ==
    IF file.size >= MaxSizeMb * 1024 * 1024 THEN TRUE
    ELSE ~file.utf8

\* a file of the clone: its size in bytes, whether its first 1024 characters
\* decode as UTF-8 (utf8) and whether all of it does (decodes) are properties
\* of the file on disk
is_binary_or_large_file(file) ==
    IF file.size > MaxSizeMb * 1024 * 1024 THEN TRUE
    ELSE ~file.utf8

(***************************************************************************)
(* Vector store: the Chroma collection operations the backend uses.  A     *)
(* record is [collection, id, document, metadata] plus the history field   *)
(* load, naming the repository load that wrote it.                         *)
(***************************************************************************)

\* get_collection_for_chat: the name of the collection of a chat
get_collection_for_chat(chat_id) == "chat_" \o chat_id

\* a where clause is a record of conditions, all of which must hold ($and);
\* the condition on "type" is a set of admitted values ($in), the others are
\* values; a key missing from the metadata matches nothing
where_matches(metadata, where) ==
    \A k \in DOMAIN where :
        /\ k \in DOMAIN metadata
        /\ IF k = "type" THEN metadata[k] \in where[k] ELSE metadata[k] = where[k]

\* collection.get(where=...)
collection_get(records, collection, where) ==
    { r \in records : r.collection = collection /\ where_matches(r.metadata, where) }

\* variant: nothing is deleted
collection_delete_nothing(records, collection, where) == records

\* variant: the filter is inverted, the matching records are the ones kept
collection_delete_inverted(records, collection, where) ==
    { r \in records : r.collection = collection /\ where_matches(r.metadata, where) }

\* collection.delete(where=...): the records that remain
collection_delete(records, collection, where) ==
    { r \in records : ~(r.collection = collection /\ where_matches(r.metadata, where)) }

\* variant: the search runs over every collection of the client and drops
\* the chat_id condition
collection_query_unscoped(records, collection, where, n_results) ==
    LET rest == [k \in DOMAIN where \ {"chat_id"} |-> where[k]]
        matching == { r \in records : where_matches(r.metadata, rest) }
        n == Min(n_results, Cardinality(matching))
    IN  { res \in SUBSET matching : Cardinality(res) = n }

\* collection.query(query_embeddings, where, n_results): the n_results nearest
\* matching records; the distances come from the embedding model, so any
\* selection of that size is possible
collection_query(records, collection, where, n_results) ==
    LET matching == collection_get(records, collection, where)
        n == Min(n_results, Cardinality(matching))
    IN  { res \in SUBSET matching : Cardinality(res) = n }

\* int to str for the chunk indexes that occur
IndexDigits == "0123456789"
str(i) == SubSeq(IndexDigits, i + 1, i + 1)

\* lines 224-237: the metadata and the id of the i-th chunk (0-based)
chunk_metadata(chunk, chat_id, path, i) ==
    [chat_id |-> chat_id, file_path |-> path,
     start_line |-> chunk.start_line, end_line |-> chunk.end_line, chunk_index |-> i]

\* variant: the id leaves out the file path
chunk_id_without_path(chat_id, path, i) == chat_id \o "_chunk_" \o str(i)

chunk_id(chat_id, path, i) == chat_id \o "_" \o path \o "_chunk_" \o str(i)

\* the records add_chunks_to_vector_db passes to collection.add
new_records(collection, chs, chat_id, path, load) ==
    { [collection |-> collection, id |-> chunk_id(chat_id, path, k - 1),
       document |-> chs[k].content,
       metadata |-> chunk_metadata(chs[k], chat_id, path, k - 1),
       load |-> load] : k \in 1..Len(chs) }

\* ids of the collection
collection_ids(records, collection) ==
    { r.id : r \in { x \in records : x.collection = collection } }

\* lines 561-592: the file paths get_files returns (sorted(set(...)): one
\* entry per path)
get_files(records, chat_id) ==
    { r.metadata.file_path :
        r \in { x \in collection_get(records, get_collection_for_chat(chat_id),
                                     [chat_id |-> chat_id]) :
                "file_path" \in DOMAIN x.metadata } }

(***************************************************************************)
(* Retriever: bolt_app.py generate_response, extract_function_name         *)
(***************************************************************************)

GeneralKeywords ==
    << "what is this code for", "what does this do", "explain this code",
       "purpose of this", "overview", "summarize", "describe the code",
       "how does this work", "what is the functionality" >>

FunctionKeywords == <<"function", "method", "class", "def", "how does", "what does", "explain">>

\* line 410
is_general_question(query) ==
    \E k \in 1..Len(GeneralKeywords) : Contains(lower(query), GeneralKeywords[k])

RECURSIVE SkipNonSpace(_, _)
\* position after the greedy \S* that starts at i
SkipNonSpace(s, i) ==
    IF i <= Len(s) /\ ~IsSpace(Char(s, i)) THEN SkipNonSpace(s, i + 1) ELSE i

\* re.match(r'^@(\S+)', query): group(1), or None
file_match(query) ==
    IF Char(query, 1) = "@" /\ SkipNonSpace(query, 2) > 2
    THEN SubSeq(query, 2, SkipNonSpace(query, 2) - 1)
    ELSE None

\* line 444
is_function_query(query) ==
    \E k \in 1..Len(FunctionKeywords) : Contains(lower(query), FunctionKeywords[k])

\* a literal of a re.IGNORECASE pattern at position i
LitCI(s, i, k) == i + Len(k) - 1 <= Len(s) /\ lower(SubSeq(s, i, i + Len(k) - 1)) = k

SymbolWords == <<"function", "method", "class">>

\* ([a-zA-Z_]\w*) at position b: the set holding its end, empty if no match
NameAt(s, b) == IF IsNameStart(Char(s, b)) THEN {SkipWord(s, b)} ELSE {}

\* lit1\s+([a-zA-Z_]\w*) at position p: [name, end]
LitThenName(s, p, lit1) ==
    LET a == p + Len(lit1)
        b == SkipSpace(s, a)
    IN  IF LitCI(s, p, lit1) /\ b > a
        THEN { [name |-> SubSeq(s, b, e - 1), end |-> e] : e \in NameAt(s, b) }
        ELSE {}

\* \s+lit at position e
SpaceThenLit(s, e, lit) == SkipSpace(s, e) > e /\ LitCI(s, SkipSpace(s, e), lit)

\* the names each pattern of extract_function_name captures at position p
name_pattern(n, s, p) ==
    CASE n = 1 -> \* (?:function|method|class)\s+([a-zA-Z_]\w*)
            FirstOf([k \in 1..Len(SymbolWords) |->
                { m.name : m \in LitThenName(s, p, SymbolWords[k]) }])
      [] n = 2 -> \* (?:the|a)\s+([a-zA-Z_]\w*)\s+(?:function|method|class)
            FirstOf([k \in 1..2 |->
                { m.name : m \in { x \in LitThenName(s, p, <<"the", "a">>[k]) :
                      \E w \in 1..Len(SymbolWords) : SpaceThenLit(s, x.end, SymbolWords[w]) } }])
      [] n = 3 -> \* how\s+does\s+([a-zA-Z_]\w*)\s+work
            IF LitCI(s, p, "how") /\ SkipSpace(s, p + 3) > p + 3
            THEN { m.name : m \in { x \in LitThenName(s, SkipSpace(s, p + 3), "does") :
                                    SpaceThenLit(s, x.end, "work") } }
            ELSE {}
      [] n = 4 -> \* what\s+does\s+([a-zA-Z_]\w*)\s+do
            IF LitCI(s, p, "what") /\ SkipSpace(s, p + 4) > p + 4
            THEN { m.name : m \in { x \in LitThenName(s, SkipSpace(s, p + 4), "does") :
                                    SpaceThenLit(s, x.end, "do") } }
            ELSE {}
      [] n = 5 -> \* explain\s+(?:the\s+)?([a-zA-Z_]\w*)
            LET a == p + Len("explain")
                b == SkipSpace(s, a)
            IN  IF LitCI(s, p, "explain") /\ b > a
                THEN FirstOf(<< { m.name : m \in LitThenName(s, b, "the") },
                                { SubSeq(s, b, e - 1) : e \in NameAt(s, b) } >>)
                ELSE {}

NamePatterns == 5

\* re.search(pattern n, query, re.IGNORECASE): group(1) of the leftmost match
name_search(n, query) ==
    FirstOf([p \in 1..Len(query) |-> name_pattern(n, query, p)])

\* lines 252-268: the first pattern that matches gives the name, else ""
extract_function_name(query) ==
    LET found == FirstOf([n \in 1..NamePatterns |-> name_search(n, query)])
    IN  IF found = {} THEN "" ELSE CHOOSE x \in found : TRUE

OverviewResults == 5
FileResults == 10
NamedSymbolResults == 1
SymbolResults == 3
DefaultResults == 3

SymbolTypes == {"function", "class"}

\* lines 412-475: the strategy, the where clause and n_results of the search
retrieval_plan(chat_id, query) ==
    IF is_general_question(query)
    THEN [strategy |-> "overview", where |-> [chat_id |-> chat_id],
          n_results |-> OverviewResults]
    ELSE IF file_match(query) # None
    THEN [strategy |-> "file",
          where |-> [chat_id |-> chat_id, file_path |-> file_match(query)],
          n_results |-> FileResults]
    ELSE IF is_function_query(query)
    THEN IF extract_function_name(query) # ""
         THEN [strategy |-> "symbol",
               where |-> [chat_id |-> chat_id, type |-> SymbolTypes,
                          name |-> extract_function_name(query)],
               n_results |-> NamedSymbolResults]
         ELSE [strategy |-> "symbol",
               where |-> [chat_id |-> chat_id, type |-> SymbolTypes],
               n_results |-> SymbolResults]
    ELSE [strategy |-> "default", where |-> [chat_id |-> chat_id],
          n_results |-> DefaultResults]

\* lines 393-475: the result sets the search of generate_response can return
retrieve(records, chat_id, plan) ==
    collection_query(records, get_collection_for_chat(chat_id), plan.where, plan.n_results)

(***************************************************************************)
(* Prompt assembly shared by the pipelines (bolt_app.py lines 499-522,     *)
(* app_enha_rag.py lines 345-377, 2boltapp.py lines 260-272)               *)
(***************************************************************************)

\* line.startswith(prefix)
startswith(line, prefix) == Lit(line, 1, prefix)

UserPrefix == "User: "
AssistantPrefix == "Assistant: "

\* variant: every history line becomes a user message
history_message_any_line(line) == <<[role |-> "user", content |-> line]>>

\* lines 507-516: the message of one history line, if it has one (line[6:],
\* line[11:])
history_message(line) ==
    IF startswith(line, UserPrefix)
    THEN <<[role |-> "user", content |-> From(line, Len(UserPrefix) + 1)]>>
    ELSE IF startswith(line, AssistantPrefix)
    THEN <<[role |-> "assistant", content |-> From(line, Len(AssistantPrefix) + 1)]>>
    ELSE <<>>

RECURSIVE history_loop(_, _, _)
\* the for loop over conversation_history.split('\n'), from the k-th line
history_loop(lines, k, messages) ==
    IF k > Len(lines) THEN messages
    ELSE history_loop(lines, k + 1, messages \o history_message(lines[k]))

\* lines 499-522: the messages sent to the chat model
build_messages(system_content, conversation_history, user_content) ==
    LET messages == <<[role |-> "system", content |-> system_content]>>
        with_history ==
            IF conversation_history # ""
            THEN history_loop(split(conversation_history, "\n"), 1, messages)
            ELSE messages
    IN  Append(with_history, [role |-> "user", content |-> user_content])

(***************************************************************************)
(* Two-stage pipeline: app_enha_rag.py refine_query, get_relevant_chunks,  *)
(* generate_response.  A result list is a sequence of [doc, distance]; a   *)
(* distance is counted in halves (DistanceScale to one), the values the    *)
(* float arithmetic of the code represents exactly.                        *)
(***************************************************************************)

DistanceScale == 2

RECURSIVE sum_distances(_, _)
sum_distances(results, k) ==
    IF k > Len(results) THEN 0 ELSE results[k].distance + sum_distances(results, k + 1)

\* lines 315-319: avg_similarity = 1 - sum/len, or 0 for no result; as the
\* fraction num/den with den > 0
avg_similarity(results) ==
    IF results # <<>>
    THEN [num |-> DistanceScale * Len(results) - sum_distances(results, 1),
          den |-> DistanceScale * Len(results)]
    ELSE [num |-> 0, den |-> 1]

\* a > b for two similarities
similarity_greater(a, b) == a.num * b.den > b.num * a.den

\* variant: the refined results are taken on a tie as well
uses_refined_on_tie(final_similarity, initial_similarity) ==
    ~similarity_greater(initial_similarity, final_similarity)

\* line 338: if final_similarity > initial_similarity
uses_refined(final_similarity, initial_similarity) ==
    similarity_greater(final_similarity, initial_similarity)

\* lines 291-293: refined_query.split('\n')[0] when it has a newline
first_line(text) == IF Contains(text, "\n") THEN split(text, "\n")[1] ELSE text

\* variant: a failure of the model call is passed on to the caller
refine_query_strict(initial_query, outcome) ==
    IF outcome.raised THEN [raised |-> TRUE, value |-> None]
    ELSE [raised |-> FALSE, value |-> first_line(outcome.content)]

\* lines 249-302: refine_query; outcome is what the chat-model call did
\* (raised, or answered with content)
refine_query(initial_query, outcome) ==
    IF outcome.raised THEN [raised |-> FALSE, value |-> initial_query]
    ELSE [raised |-> FALSE, value |-> first_line(outcome.content)]

\* the documents of a result list, "\n".join(chunks)
result_documents(results) == [k \in 1..Len(results) |-> results[k].doc]

EnhaPrompt == "You are a helpful AI assistant specializing in code explanation. Base your response on this code context: "

\* lines 337-343: the context and the query kept for the answer
choose_results(query, refined_query, initial, final) ==
    IF uses_refined(avg_similarity(final), avg_similarity(initial))
    THEN [chosen |-> "final", context |-> join(result_documents(final), "\n"),
          used_query |-> refined_query]
    ELSE [chosen |-> "initial", context |-> join(result_documents(initial), "\n"),
          used_query |-> query]

(***************************************************************************)
(* File-context pipeline: 2boltapp.py parse_query, generate_response       *)
(***************************************************************************)

RECURSIVE lstrip_from(_, _)
lstrip_from(s, i) == IF i <= Len(s) /\ IsSpace(Char(s, i)) THEN lstrip_from(s, i + 1) ELSE i

RECURSIVE rstrip_to(_, _)
rstrip_to(s, i) == IF i >= 1 /\ IsSpace(Char(s, i)) THEN rstrip_to(s, i - 1) ELSE i

\* str.strip()
strip(s) ==
    LET a == lstrip_from(s, 1) b == rstrip_to(s, Len(s))
    IN  IF a > b THEN "" ELSE SubSeq(s, a, b)

DefaultFileQuery == "Explain this file"

\* lines 45-59: re.match(r'^@(\S+)\s*(.*)', query); the file named after the
\* @ becomes the active file of the chat and the rest of the line the query
parse_query(query, active_file) ==
    LET f == file_match(query)
    IN  IF f # None
        THEN LET rest  == From(query, lstrip_from(query, Len(f) + 2))
                 line  == IF Contains(rest, "\n") THEN split(rest, "\n")[1] ELSE rest
                 actual == strip(line)
             IN  [file_context |-> f,
                  actual_query |-> IF actual # "" THEN actual ELSE DefaultFileQuery,
                  active_file |-> f]
        ELSE [file_context |-> active_file, actual_query |-> query,
              active_file |-> active_file]

FileContextPrompt == "You are a code expert analyzing the file "
PlainPrompt == "You are a helpful AI assistant specialized in code explanation."

\* lines 234-250: the system message of the request
file_context_prompt(file_context) ==
    IF file_context # None
    THEN FileContextPrompt \o file_context \o ". Provide a comprehensive answer based on the file's content."
    ELSE PlainPrompt

(***************************************************************************)
(* State                                                                   *)
(***************************************************************************)

VARIABLES
    content,      \* chunker: the file content passed to create_chunks
    file_path,    \* chunker: the path passed to create_chunks
    chunk_size,   \* chunker: the chunk_size passed to create_chunks
    chunker,      \* chunker: "input", or the module whose create_chunks has run
    structures,   \* chunker: the regions extract_functions_and_classes returned
    chunks,       \* chunker: the chunks create_chunks returned
    store,        \* the records of the persistent Chroma client, all collections
    th,           \* per worker thread: the request it serves and its position
    loadCount,    \* number of repository loads started so far
    lastLoad,     \* per chat: the load that last ran its delete step (history)
    everOverlapped, \* per chat: two loads of the chat were ever in progress together (history)
    ask,          \* one run of a pipeline's generate_response: its inputs, position and locals
    walk,         \* one run of a loader's walk over a clone: the tree, its position and its outcome
    active_file_contexts, \* 2boltapp.py: the dict from chat id to the active file
    fileAsk,      \* 2boltapp.py: the last request served and, per chat, the @file asks so far (history)
    rank,         \* app.py: one run of generate_response's file ranking
    file_operations, \* file_operations.py: the dict from chat id to the dict of status entries
    save,         \* file_operations.py: the last request served and the saves finished (history)
    repo_contents, \* codeedit.py: the dict from chat id to the text of its repository
    proc          \* codeedit.py: the last request served

chunkVars == <<content, file_path, chunk_size, chunker, structures, chunks>>
storeVars == <<store, th, loadCount, lastLoad, everOverlapped>>
askVars == <<ask>>
walkVars == <<walk>>
fileVars == <<active_file_contexts, fileAsk>>
rankVars == <<rank>>
saveVars == <<file_operations, save>>
repoVars == <<repo_contents, proc>>
extVars == <<fileVars, rankVars, saveVars, repoVars>>
vars == <<content, file_path, chunk_size, chunker, structures, chunks,
          store, th, loadCount, lastLoad, everOverlapped, ask, walk,
          active_file_contexts, fileAsk, rank, file_operations, save, repo_contents, proc>>

(***************************************************************************)
(* Chunker inputs                                                          *)
(***************************************************************************)

\* longest content drawn, in lines
MaxLines == 3

DefaultChunkSize == 1500

LongLine == "# 0123456789 0123456789 0123456789 0123456789 0123456789 0123456789 ##"

\* lines the contents are built from: blank lines, declarations of each
\* supported syntax, and plain lines of 20, 29 and 70 characters
LineCatalogue ==
    { "", "  ",
      "def foo():", "function baz() {", "qux = async function() {", "public class Foo {",
      "y = compute(total,1)", "total = total + values[i] * 2", LongLine }

\* the two-function Python file and the three 60-character lines of the scenarios
TwoFunctions == "def foo():\n    return 1\n\ndef bar():\n    return 2\n"
SixtyChars == "# 012345678 012345678 012345678 012345678 012345678 01234567"
ThreeLongLines == join(<<SixtyChars, SixtyChars, SixtyChars>>, "\n")

Contents ==
    { join(ls, "\n") : ls \in UNION { [1..n -> LineCatalogue] : n \in 1..MaxLines } }
    \cup {TwoFunctions, ThreeLongLines}

FilePaths == {"utils.py", "src/app/Main.java"}

ChunkSizes == {50, DefaultChunkSize}

(***************************************************************************)
(* Requests: the Flask routes /load-repo, /chat and /files of bolt_app.py, *)
(* served by concurrent worker threads over the one persistent store       *)
(***************************************************************************)

\* most repository loads started in one behaviour
MaxLoads == 2

Threads == {"t1", "t2"}

Chats == {"c1", "c2"}

\* the file trees git clone can produce, in os.walk order
RepoNames == {"A", "B", "C"}

Repo(name) ==
    CASE name = "A" ->
            << [path |-> "utils.py", content |-> "def foo():\n    return 1", size |-> 24, utf8 |-> TRUE, decodes |-> TRUE],
               [path |-> "src/main.py", content |-> "import utils\nx = 1", size |-> 18, utf8 |-> TRUE, decodes |-> TRUE] >>
      [] name = "B" ->
            << [path |-> "utils.py", content |-> "def bar():\n    return 2", size |-> 24, utf8 |-> TRUE, decodes |-> TRUE],
               [path |-> "lib/app.js", content |-> "function baz() {\n}", size |-> 18, utf8 |-> TRUE, decodes |-> TRUE] >>
      [] name = "C" ->
            << [path |-> "README.md", content |-> "  \n", size |-> 3, utf8 |-> TRUE, decodes |-> TRUE],
               [path |-> "logo.png", content |-> "PNG", size |-> 2048, utf8 |-> FALSE, decodes |-> FALSE] >>

Queries ==
    { "@utils.py explain this", "@utils.py give me an overview",
      "Summarize the function foo", "explain the foo function",
      "list every method", "where is the config loaded" }

\* create_chunks(content, relative_path, chunk_size) of line 147 for each
\* file of each clone, with the default chunk_size of the route
file_chunks ==
    [r \in RepoNames |->
        [i \in 1..Len(Repo(r)) |->
            create_chunks(Repo(r)[i].content, Repo(r)[i].path, DefaultChunkSize)]]

\* the search plan of generate_response for each chat and query
plan_of == [c \in Chats |-> [q \in Queries |-> retrieval_plan(c, q)]]

NoStore == {}

\* a repository load is named by the worker that runs it, the clone it walks
\* and the chat it was requested for (a worker runs one load at a time)
NoLoad == [by |-> "none", repo |-> "none", chat |-> "none"]

IdleThread == [pc |-> "idle"]

\* no pipeline run
IdleAsk == [pc |-> "idle"]

\* no walk
IdleWalk == [pc |-> "idle"]

\* an empty dict
EmptyDict == <<>>

\* no request served yet
NoRequest == [op |-> "none"]

\* the module-level state of 2boltapp.py, app.py, file_operations.py and
\* codeedit.py at import
FileOff == active_file_contexts = EmptyDict /\ fileAsk = NoRequest
RankOff == rank = NoRequest
SaveOff == file_operations = EmptyDict /\ save = NoRequest
RepoOff == repo_contents = EmptyDict /\ proc = NoRequest
ExtOff == FileOff /\ RankOff /\ SaveOff /\ RepoOff

ChunkInit ==
    /\ content \in Contents
    /\ file_path \in FilePaths
    /\ chunk_size \in ChunkSizes
    /\ chunker = "input"
    /\ structures = <<>>
    /\ chunks = <<>>
    /\ store = NoStore
    /\ th = [t \in Threads |-> IdleThread]
    /\ loadCount = 0
    /\ lastLoad = [c \in Chats |-> NoLoad]
    /\ everOverlapped = [c \in Chats |-> FALSE]
    /\ ask = IdleAsk
    /\ walk = IdleWalk
    /\ ExtOff

\* bolt_app.create_chunks(content, file_path, chunk_size)
CallCreateChunks ==
    /\ chunker = "input"
    /\ chunker' = "bolt_app"
    /\ structures' = extract_functions_and_classes(content)
    /\ chunks' = create_chunks(content, file_path, chunk_size)
    /\ UNCHANGED <<content, file_path, chunk_size>>
    /\ UNCHANGED storeVars
    /\ UNCHANGED askVars
    /\ UNCHANGED walkVars
    /\ UNCHANGED extVars

\* 2app_enh_rag.create_chunks(content, file_path, chunk_size)
CallEnhCreateChunks ==
    /\ chunker = "input"
    /\ chunker' = "2app_enh_rag"
    /\ structures' = <<>>
    /\ chunks' = enh_create_chunks(content, file_path, chunk_size)
    /\ UNCHANGED <<content, file_path, chunk_size>>
    /\ UNCHANGED storeVars
    /\ UNCHANGED askVars
    /\ UNCHANGED walkVars
    /\ UNCHANGED extVars

ChunkNext == CallCreateChunks \/ CallEnhCreateChunks

SpecChunk == ChunkInit /\ [][ChunkNext]_vars

(***************************************************************************)
(* Chunker properties                                                      *)
(***************************************************************************)

\* the kind of a chunk: 'type' in bolt_app, 'chunk_type' in 2app_enh_rag
Kind(ch) == IF "chunk_type" \in DOMAIN ch THEN ch.chunk_type ELSE ch.type

IsHeader(ch) == Kind(ch) = "header"

NonHeader(chs) == SelectSeq(chs, LAMBDA ch : ~IsHeader(ch))

InputLines == split(content, "\n")

\* the lines a..b (1-based, inclusive) of the input joined by newline
LinesText(a, b) == join(SubSeq(InputLines, a, b), "\n")

\* each fragment holds exactly the lines of its range
AccurateRanges(chs) ==
    \A k \in 1..Len(chs) :
        /\ 1 <= chs[k].start_line
        /\ chs[k].start_line <= chs[k].end_line
        /\ chs[k].end_line <= Len(InputLines)
        /\ chs[k].content = LinesText(chs[k].start_line, chs[k].end_line)

\* each fragment starts on the line after the end of the previous one
Contiguous(chs) ==
    \A k \in 1..(Len(chs) - 1) : chs[k + 1].start_line = chs[k].end_line + 1

\* the fragments cover lines 1..N exactly once and reproduce the content
CoversAllLines(chs) ==
    /\ chs # <<>>
    /\ chs[1].start_line = 1
    /\ Contiguous(chs)
    /\ chs[Len(chs)].end_line = Len(InputLines)
    /\ AccurateRanges(chs)
    /\ join([k \in 1..Len(chs) |-> chs[k].content], "\n") = content

\* C5 as stated: after either create_chunks has run, the non-header fragments
\* in index order cover lines 1..N exactly once (first starts at 1, each next
\* starts at the previous end + 1, the last ends at N), each holds exactly its
\* lines, and joining them by newline reproduces the content.
C5_FragmentsCoverEveryLine ==
    chunker # "input" => CoversAllLines(NonHeader(chunks))

\* C5 amended: the non-header fragments are consecutive, accurate line ranges
\* ending at line N; they start at line 1 and reproduce the content, except
\* that on the structural path of bolt_app a whitespace-only run of lines
\* before the first declaration is in no fragment (the fragments then start at
\* the first declaration).  The fallback path and 2app_enh_rag always cover 1..N.
C5_FragmentsCoverAllButLeadingBlankLines ==
    chunker # "input" =>
        LET chs == NonHeader(chunks)
        IN  /\ chs # <<>>
            /\ Contiguous(chs)
            /\ AccurateRanges(chs)
            /\ chs[Len(chs)].end_line = Len(InputLines)
            /\ \/ CoversAllLines(chs)
               \/ /\ chunker = "bolt_app"
                  /\ structures # <<>>
                  /\ chs[1].start_line > 1
                  /\ chs[1].start_line = structures[1].start_line
                  /\ \A i \in 1..(chs[1].start_line - 1) : ~strip_nonempty(InputLines[i])

\* C5 witnesses: a structural run that dropped leading blank lines, next to
\* runs of several fragments on the fallback path
C5_Witness ==
    /\ chunker = "bolt_app"
    /\ structures # <<>>
    /\ Len(chunks) >= 2
    /\ chunks[1].start_line > 1

\* number of lines of a fragment
LineCount(ch) == ch.end_line - ch.start_line + 1

\* C6: when no line matches a declaration pattern, bolt_app.create_chunks
\* returns only code_block fragments of whole consecutive lines built greedily:
\* a fragment ends before line j exactly when its content joined with line j
\* would be longer than chunk_size.  So a fragment of more than one line is at
\* most chunk_size long, only a one-line fragment can be longer, and three
\* lines each longer than the bound give three one-line fragments.
C6_FallbackIsGreedyOnWholeLines ==
    (chunker = "bolt_app" /\ structures = <<>>) =>
        /\ \A k \in 1..Len(chunks) : Kind(chunks[k]) = "code_block"
        /\ CoversAllLines(chunks)
        \* closed only when the next line does not fit
        /\ \A k \in 1..(Len(chunks) - 1) :
              Len(chunks[k].content) + 1 + Len(InputLines[chunks[k].end_line + 1]) > chunk_size
        \* not closed while the next line fits
        /\ \A k \in 1..Len(chunks) :
              \A j \in (chunks[k].start_line + 1)..chunks[k].end_line :
                  Len(LinesText(chunks[k].start_line, j)) <= chunk_size
        /\ \A k \in 1..Len(chunks) :
              Len(chunks[k].content) > chunk_size => LineCount(chunks[k]) = 1
        /\ (content = ThreeLongLines /\ chunk_size = 50) =>
              /\ Len(chunks) = 3
              /\ \A k \in 1..3 : chunks[k].content = SixtyChars

\* C6 witness: a fallback run with a fragment of several lines that fills
\* chunk_size exactly and a one-line fragment longer than chunk_size
C6_Witness ==
    /\ chunker = "bolt_app"
    /\ structures = <<>>
    /\ \E k \in 1..Len(chunks) : LineCount(chunks[k]) > 1 /\ Len(chunks[k].content) = chunk_size
    /\ \E k \in 1..Len(chunks) : Len(chunks[k].content) > chunk_size

\* the file name of each path of FilePaths
ExpectedFileName(path) ==
    CASE path = "utils.py" -> "utils.py"
      [] path = "src/app/Main.java" -> "Main.java"

\* the first chunk is a header of the file: its path, its name and the first
\* HeaderOverviewChars characters of the content, and nothing more of it
LeadingHeader(chs) ==
    /\ chs # <<>>
    /\ IsHeader(chs[1])
    /\ chs[1].file_path = file_path
    /\ chs[1].file_name = ExpectedFileName(file_path)
    /\ Contains(chs[1].content, file_path)
    /\ Contains(chs[1].content, Prefix(content, HeaderOverviewChars) \o "...")
    /\ Len(chs[1].content) =
          Len("File: \nName: \nContent Overview:\n...") + Len(file_path)
          + Len(ExpectedFileName(file_path)) + Min(Len(content), HeaderOverviewChars)
    /\ \A k \in 2..Len(chs) : ~IsHeader(chs[k])

C8_BlankContentGivesOnlyHeader ==
    (chunker # "input" /\ ~strip_nonempty(content)) => NonHeader(chunks) = <<>>

\* the identifier declared by each declaration line of the inputs
DeclaredName(line) ==
    CASE line = "def foo():" -> "foo"
      [] line = "def bar():" -> "bar"
      [] line = "function baz() {" -> "baz"
      [] line = "qux = async function() {" -> "qux"
      [] line = "public class Foo {" -> "Foo"

\* the kind each declaration line of the inputs declares
DeclaredKind(line) ==
    CASE line = "def foo():" -> "function"
      [] line = "def bar():" -> "function"
      [] line = "function baz() {" -> "function"
      [] line = "qux = async function() {" -> "function"
      [] line = "public class Foo {" -> "class"

\* C9 as stated: every region extract_functions_and_classes returns has kind
\* function or class and the identifier declared on its first line as name;
\* the two-function Python content gives the function regions foo and bar and
\* create_chunks gives two function fragments and no leading code_block.
C9_RegionsAreNamedFunctionsAndClasses ==
    chunker = "bolt_app" =>
        /\ \A k \in 1..Len(structures) :
              /\ structures[k].type \in {"function", "class"}
              /\ structures[k].type = DeclaredKind(InputLines[structures[k].start_line])
              /\ structures[k].name = DeclaredName(InputLines[structures[k].start_line])
        /\ content = TwoFunctions =>
              /\ [k \in 1..Len(structures) |-> <<structures[k].type, structures[k].name>>]
                    = << <<"function", "foo">>, <<"function", "bar">> >>
              /\ [k \in 1..Len(chunks) |-> Kind(chunks[k])] = <<"function", "function">>

(***************************************************************************)
(* Request handlers.  A handler is split where it reads or writes the      *)
(* store, which is all the threads share; what it does in between (the     *)
(* clone, the chunking, the chat call) is local to the request.            *)
(***************************************************************************)

StoreInit ==
    /\ store = NoStore
    /\ th = [t \in Threads |-> IdleThread]
    /\ loadCount = 0
    /\ lastLoad = [c \in Chats |-> NoLoad]
    /\ everOverlapped = [c \in Chats |-> FALSE]
    /\ ask = IdleAsk
    /\ walk = IdleWalk
    /\ ExtOff
    /\ content = ""
    /\ file_path = ""
    /\ chunk_size = DefaultChunkSize
    /\ chunker = "idle"
    /\ structures = <<>>
    /\ chunks = <<>>

\* thread t is walking the clone of a load of chat c
LoadRunning(t, c) == th[t].pc = "walk" /\ th[t].chat = c

\* no response yet
NoResponse == [status |-> 0]

SuccessResponse == [status |-> 200, body |-> "success"]

ErrorResponse(status, error) == [status |-> status, error |-> error]

GenericError == "An unexpected error occurred. Please try again."

CloneError == "Failed to clone repository. Please check the URL and try again."

NoFilesError == "No valid code files found in the repository"

NoContextError == "No relevant information found in the repository"

\* the exceptions a failing collaborator (vector store, embedding model,
\* chat model) raises: of a class outside ValueError, with a text of their own
CollaboratorErrors ==
    { [class |-> "Exception", text |-> "connection refused"] }

\* line 123: raise ValueError("Failed to clone repository. ...")
CloneFailed == [class |-> "ValueError", text |-> CloneError]

\* line 486: raise ValueError("No relevant information found in the repository")
NoRelevantContext == [class |-> "ValueError", text |-> NoContextError]

\* lines 554-559 and 615-620: the except clauses of load_repo and chat_endpoint
route_error_response(e) ==
    IF e.class = "ValueError"
    THEN ErrorResponse(400, e.text)
    ELSE ErrorResponse(500, GenericError)

\* lines 590-592: the except clause of get_files
files_error_response(e) == ErrorResponse(500, e.text)

\* lines 155-157 and 552-556: the response of a load whose walk is over
load_response(processed_files) ==
    IF processed_files = 0 THEN ErrorResponse(400, NoFilesError) ELSE SuccessResponse

\* the thread after iteration idx of the walk: at the next file, or done
\* when that was the last one
after_file(rec, processed_files) ==
    IF rec.idx = Len(Repo(rec.repo))
    THEN [rec EXCEPT !.pc = "done", !.processed_files = processed_files,
                     !.response = load_response(processed_files)]
    ELSE [rec EXCEPT !.idx = @ + 1, !.processed_files = processed_files]

\* the records of the chat when a load is accepted (history)
records_of_chat(c) == collection_get(store, get_collection_for_chat(c), [chat_id |-> c])

\* lines 101-127 and 536-551: a /load-repo request is accepted; the clone
\* fails, or it succeeds and the store fails (get_collection_for_chat or
\* collection.delete raises), or the records of the chat are deleted
LoadStart(t) ==
    /\ th[t].pc = "idle"
    /\ loadCount < MaxLoads
    /\ loadCount' = loadCount + 1
    /\ \E c \in Chats, r \in RepoNames :
          \/ /\ th' = [th EXCEPT ![t] =
                          [pc |-> "done", op |-> "load", chat |-> c, repo |-> r,
                           before |-> records_of_chat(c),
                           response |-> route_error_response(CloneFailed)]]
             /\ UNCHANGED <<store, lastLoad, everOverlapped>>
          \/ \E e \in CollaboratorErrors :
                /\ th' = [th EXCEPT ![t] =
                             [pc |-> "done", op |-> "load", chat |-> c, repo |-> r,
                              before |-> records_of_chat(c),
                              response |-> route_error_response(e)]]
                /\ UNCHANGED <<store, lastLoad, everOverlapped>>
          \/ /\ store' = collection_delete(store, get_collection_for_chat(c), [chat_id |-> c])
             /\ th' = [th EXCEPT ![t] =
                          [pc |-> "walk", op |-> "load", chat |-> c, repo |-> r,
                           before |-> records_of_chat(c),
                           idx |-> 1, processed_files |-> 0,
                           load |-> [by |-> t, repo |-> r, chat |-> c],
                           response |-> NoResponse]]
             /\ lastLoad' = [lastLoad EXCEPT ![c] = [by |-> t, repo |-> r, chat |-> c]]
             /\ everOverlapped' = [everOverlapped EXCEPT ![c] =
                                      @ \/ \E u \in Threads \ {t} : LoadRunning(u, c)]
    /\ UNCHANGED chunkVars
    /\ UNCHANGED askVars
    /\ UNCHANGED walkVars
    /\ UNCHANGED extVars

\* lines 137-152: the file is not indexed: it is filtered out, reading it
\* whole raises UnicodeDecodeError, or its content is blank
skips_file(file) ==
    \/ ~is_code_file(file.path)
    \/ is_binary_or_large_file(file)
    \/ ~file.decodes
    \/ ~strip_nonempty(file.content)

\* lines 148-150: the chunks of the file are added under their ids;
\* collection.add of an id the collection already holds raises
\* DuplicateIDError or leaves the stored record as it is, depending on the
\* Chroma release
add_chunks_to_vector_db(t, recs, dup) ==
    IF recs = {}
    THEN /\ th' = [th EXCEPT ![t] = after_file(th[t], th[t].processed_files)]
         /\ store' = store
    ELSE \/ /\ store' = store \cup (recs \ dup)
            /\ th' = [th EXCEPT ![t] = after_file(th[t], th[t].processed_files + 1)]
         \/ /\ dup # {}
            /\ store' = store
            /\ th' = [th EXCEPT ![t].pc = "done",
                                ![t].response = ErrorResponse(500, GenericError)]

\* the records among recs whose id the collection already holds
duplicate_ids(recs, collection) ==
    { r \in recs : r.id \in collection_ids(store, collection) }

\* lines 146-150: the file is read, chunked and indexed
index_file(t, recs) ==
    add_chunks_to_vector_db(t, recs,
        duplicate_ids(recs, get_collection_for_chat(th[t].chat)))

\* lines 133-157: one iteration of the walk, and the end of the load after
\* the last one
LoadFile(t) ==
    /\ th[t].pc = "walk"
    /\ LET file == Repo(th[t].repo)[th[t].idx]
       IN  IF skips_file(file)
           THEN /\ th' = [th EXCEPT ![t] = after_file(th[t], th[t].processed_files)]
                /\ store' = store
           ELSE index_file(t,
                    new_records(get_collection_for_chat(th[t].chat),
                                create_chunks(file.content, file.path, DefaultChunkSize),
                                th[t].chat, file.path, th[t].load))
    /\ UNCHANGED <<loadCount, lastLoad, everOverlapped>>
    /\ UNCHANGED chunkVars
    /\ UNCHANGED askVars
    /\ UNCHANGED walkVars
    /\ UNCHANGED extVars

\* variant: no result ends every request, general questions included
no_relevant_context_for_all(plan, results) == results = {}

\* lines 477-486: no result ends the request, unless the question is general
no_relevant_context(plan, results) == results = {} /\ plan.strategy # "overview"

OverviewPrompt == "You are a code expert analyzing a complete codebase."
FilePrompt     == "You are a code expert analyzing the file"
SymbolPrompt   == "You are a code expert explaining specific functions and classes."
DefaultPrompt  == "You are a helpful AI assistant specialized in code explanation."
FallbackPrompt == "You are a code expert. The user has asked a general question about the codebase, but we don't have specific code context available."
NoContext      == "No specific code context available."

\* lines 419-475: the system message of the strategy
strategy_prompt(plan) ==
    CASE plan.strategy = "overview" -> OverviewPrompt
      [] plan.strategy = "file"     -> FilePrompt \o " " \o plan.where.file_path \o "."
      [] plan.strategy = "symbol"   -> SymbolPrompt
      [] plan.strategy = "default"  -> DefaultPrompt

\* lines 491-496: the context entry of one result
context_chunk(r) ==
    "\nFile: " \o r.metadata.file_path
        \o " (lines " \o str(r.metadata.start_line) \o "-" \o str(r.metadata.end_line) \o ")"
        \o (IF "type" \in DOMAIN r.metadata /\ r.metadata.type \in SymbolTypes
            THEN "\nType: " \o r.metadata.type
                 \o (IF "name" \in DOMAIN r.metadata THEN "\nName: " \o r.metadata.name ELSE "")
            ELSE "")
        \o "\n" \o r.document

\* lines 478-497: the system message and the context of the prompt; the
\* entries of the context are joined in the order of the search
system_message(plan, results) == IF results = {} THEN FallbackPrompt ELSE strategy_prompt(plan)

prompt_context(results) ==
    IF results = {} THEN {NoContext} ELSE { context_chunk(r) : r \in results }

\* the /chat request of thread t after generate_response
ask_done(c, q, plan, searched, res, chat_called, response) ==
    [pc |-> "done", op |-> "ask", chat |-> c, query |-> q, plan |-> plan,
     searched |-> searched, results |-> res, chat_called |-> chat_called,
     system_message |-> IF chat_called THEN system_message(plan, res) ELSE None,
     context |-> IF chat_called THEN prompt_context(res) ELSE {},
     response |-> response]

\* lines 390-533 and 596-620: a /chat request: the search of
\* generate_response, then NoRelevantContext or the call of the chat model;
\* the embedding model or the store can fail the search, the chat model its call
generate_response(c, q, plan) ==
    { ask_done(c, q, plan, FALSE, {}, FALSE, route_error_response(e)) :
        e \in CollaboratorErrors }
    \cup UNION {
        IF no_relevant_context(plan, res)
        THEN {ask_done(c, q, plan, TRUE, res, FALSE, route_error_response(NoRelevantContext))}
        ELSE {ask_done(c, q, plan, TRUE, res, TRUE, [status |-> 200, body |-> "response"])}
             \cup { ask_done(c, q, plan, TRUE, res, TRUE, route_error_response(e)) :
                      e \in CollaboratorErrors } :
        res \in retrieve(store, c, plan) }

\* variant: a /chat request waits while a load of its chat is walking
ask_admitted_outside_loads(t, c) ==
    th[t].pc = "idle" /\ ~\E u \in Threads : LoadRunning(u, c)

\* lines 595-612: chat_endpoint takes the request when the worker is free;
\* it takes no lock and looks at no load in progress
ask_admitted(t, c) == th[t].pc = "idle"

\* a /chat request for chat c
AskFor(t, c) ==
    /\ ask_admitted(t, c)
    /\ \E q \in Queries :
          \E rec \in generate_response(c, q, plan_of[c][q]) :
              th' = [th EXCEPT ![t] = rec]
    /\ UNCHANGED <<store, loadCount, lastLoad, everOverlapped>>
    /\ UNCHANGED chunkVars
    /\ UNCHANGED askVars
    /\ UNCHANGED walkVars
    /\ UNCHANGED extVars

Ask(t) ==
    /\ th[t].pc = "idle"
    /\ \E c \in Chats : AskFor(t, c)

\* lines 561-592: a /files request; get_collection_for_chat or collection.get
\* can raise
ListFiles(t) ==
    /\ th[t].pc = "idle"
    /\ \E c \in Chats :
          \/ th' = [th EXCEPT ![t] =
                       [pc |-> "done", op |-> "files", chat |-> c,
                        response |-> [status |-> 200, files |-> get_files(store, c)]]]
          \/ \E e \in CollaboratorErrors :
                th' = [th EXCEPT ![t] =
                          [pc |-> "done", op |-> "files", chat |-> c,
                           response |-> files_error_response(e)]]
    /\ UNCHANGED <<store, loadCount, lastLoad, everOverlapped>>
    /\ UNCHANGED chunkVars
    /\ UNCHANGED askVars
    /\ UNCHANGED walkVars
    /\ UNCHANGED extVars

\* the response is sent and the worker takes the next request
Return(t) ==
    /\ th[t].pc = "done"
    /\ th' = [th EXCEPT ![t] = IdleThread]
    /\ UNCHANGED <<store, loadCount, lastLoad, everOverlapped>>
    /\ UNCHANGED chunkVars
    /\ UNCHANGED askVars
    /\ UNCHANGED walkVars
    /\ UNCHANGED extVars

Next ==
    \E t \in Threads :
        \/ LoadStart(t)
        \/ LoadFile(t)
        \/ Ask(t)
        \/ ListFiles(t)
        \/ Return(t)

Spec == StoreInit /\ [][Next]_vars

(***************************************************************************)
(* Store and retrieval properties                                          *)
(***************************************************************************)

\* the partition of a chat: the records get_files and the searches see
Partition(c) == collection_get(store, get_collection_for_chat(c), [chat_id |-> c])

IsAsk(t) == th[t].pc = "done" /\ th[t].op = "ask"

\* thread t has answered a load with success
LoadSucceeded(t) == th[t].pc = "done" /\ th[t].op = "load" /\ th[t].response = SuccessResponse

\* C1: every fragment the search of an ask for chat c returns (and so every
\* fragment of the prompt context) was indexed under chat c: a load for c
\* wrote it, with chat_id c, into the collection of c, whatever the other
\* partitions hold.
C1_RetrievalStaysInConversation ==
    \A t \in Threads :
        IsAsk(t) =>
            \A r \in th[t].results :
                /\ r.metadata.chat_id = th[t].chat
                /\ r.collection = get_collection_for_chat(th[t].chat)
                /\ r.load.chat = th[t].chat

\* C1 witness: an ask got fragments while another chat's partition held records
C1_Witness ==
    \E t \in Threads :
        /\ IsAsk(t)
        /\ th[t].results # {}
        /\ \E d \in Chats \ {th[t].chat} : Partition(d) # {}

\* the paths of each clone that are code files with text in them
IndexedPaths(repo) ==
    CASE repo = "A" -> {"utils.py", "src/main.py"}
      [] repo = "B" -> {"utils.py", "lib/app.js"}
      [] repo = "C" -> {}

\* the fragments of a clone: path, index and content of each
RepoFragments(repo) ==
    UNION { { <<Repo(repo)[i].path, k - 1, file_chunks[repo][i][k].content>> :
              k \in 1..Len(file_chunks[repo][i]) } :
            i \in { j \in 1..Len(Repo(repo)) : Repo(repo)[j].path \in IndexedPaths(repo) } }

PartitionFragments(c) ==
    { <<r.metadata.file_path, r.metadata.chunk_index, r.document>> : r \in Partition(c) }

\* C2: when a load of repository B for chat c has succeeded (no later load
\* of c has begun, and loads of c have run one after the other), the partition
\* of c holds exactly the fragments of B's files, none of an earlier load, and
\* get_files returns exactly the paths indexed from B.
C2_ReloadReplacesPartition ==
    \A t \in Threads :
        (/\ LoadSucceeded(t)
         /\ lastLoad[th[t].chat] = th[t].load
         /\ ~everOverlapped[th[t].chat]) =>
            /\ PartitionFragments(th[t].chat) = RepoFragments(th[t].repo)
            /\ \A r \in Partition(th[t].chat) : r.load = th[t].load
            /\ get_files(store, th[t].chat) = IndexedPaths(th[t].repo)

\* C2 witness: a load of one repository succeeded for a chat, then a load of
\* another repository succeeded for the same chat
C2_Witness ==
    \E t, u \in Threads :
        /\ LoadSucceeded(t) /\ LoadSucceeded(u)
        /\ th[t].chat = th[u].chat
        /\ th[t].repo # th[u].repo
        /\ lastLoad[th[t].chat] = th[t].load
        /\ ~everOverlapped[th[t].chat]
        /\ Partition(th[t].chat) # {}

\* C3 as stated: in every reachable state, interleaved loads of one chat
\* included, the partition of a chat holds records of at most one repository
\* load, the most recently started one.
C3_PartitionHoldsOneLoad ==
    \A c \in Chats : \A r \in Partition(c) : r.load = lastLoad[c]

\* C3 amended: as long as no load of a chat has started while another load of
\* that chat was still walking its files, the partition of the chat holds
\* records of at most one repository load, the one that last ran its delete
\* step.  (Interleaved loads of one chat can leave records of both.)
C3_PartitionHoldsOneLoadUnlessOverlapped ==
    \A c \in Chats :
        ~everOverlapped[c] => \A r \in Partition(c) : r.load = lastLoad[c]

\* C3 witness: a chat whose loads never overlapped holds the records of its
\* second load, the first one having succeeded before
C3_Witness ==
    \E c \in Chats :
        /\ ~everOverlapped[c]
        /\ Partition(c) # {}
        /\ \E t \in Threads :
              LoadSucceeded(t) /\ th[t].chat = c /\ th[t].load # lastLoad[c]

\* what chat c can observe of the store: its partition, its file list and
\* the result sets of each query
View(c) ==
    [partition |-> Partition(c),
     files     |-> get_files(store, c),
     retrieval |-> [q \in Queries |-> retrieve(store, c, plan_of[c][q])]]

\* the chat of the request thread t is serving in this step
ActingChat(t) == IF th[t].pc = "idle" THEN th'[t].chat ELSE th[t].chat

\* C4: a step of a request for one chat (a load, an ask, a file listing)
\* leaves the partition, the file list and the retrieval results of every
\* other chat as they were, under any interleaving.  (A view is a function
\* of the store alone, so only the steps that write the store are compared.)
C4_OtherConversationsUntouched ==
    [][\A t \in Threads :
          (th'[t] # th[t] /\ store' # store) =>
              \A c \in Chats \ {ActingChat(t)} : View(c)' = View(c)]_vars

\* C4 witness: a load of one chat is walking its second file while another
\* chat's partition holds records
C4_Witness ==
    \E t \in Threads :
        /\ th[t].pc = "walk"
        /\ th[t].idx = 2
        /\ Partition(th[t].chat) # {}
        /\ \E d \in Chats \ {th[t].chat} : Partition(d) # {}

\* the strategy the stated priority order (file, symbol, overview, default)
\* gives each query
claimed_strategy ==
    [q \in Queries |->
        IF file_match(q) # None THEN "file"
        ELSE IF is_function_query(q) THEN "symbol"
        ELSE IF is_general_question(q) THEN "overview"
        ELSE "default"]

\* the file name after the @ of each query
MarkedFile(q) ==
    CASE q = "@utils.py explain this" -> "utils.py"
      [] q = "@utils.py give me an overview" -> "utils.py"
      [] OTHER -> None

\* C10 as stated: the strategy of every ask follows the priority order
\* file-scoped, symbol-scoped, overview, default; a query that begins with an
\* @filename token is searched file-scoped with file_path equal to that name,
\* whatever else its text holds.
C10_FileScopeHasPriority ==
    \A t \in Threads :
        IsAsk(t) =>
            /\ th[t].plan.strategy = claimed_strategy[th[t].query]
            /\ MarkedFile(th[t].query) # None =>
                  /\ th[t].plan.strategy = "file"
                  /\ "file_path" \in DOMAIN th[t].plan.where
                  /\ th[t].plan.where.file_path = MarkedFile(th[t].query)
                  /\ \A r \in th[t].results : r.metadata.file_path = MarkedFile(th[t].query)

\* the step in which thread t serves a /chat request
AskStep(t) == th[t].pc = "idle" /\ th'[t].pc = "done" /\ th'[t].op = "ask"

\* the chunk of the clone from which record r was written
SourceChunk(r) ==
    LET i == CHOOSE i \in 1..Len(Repo(r.load.repo)) :
                 Repo(r.load.repo)[i].path = r.metadata.file_path
    IN  file_chunks[r.load.repo][i][r.metadata.chunk_index + 1]

\* the chunker made the chunk of r for a declared function or class
IsSymbolFragment(r) == "name" \in DOMAIN SourceChunk(r)

\* the function and class fragments named name that chat c has indexed
NamedFragments(c, name) ==
    { r \in Partition(c) : IsSymbolFragment(r) /\ SourceChunk(r).name = name }

\* C11 as stated: a symbol query with an extracted name N returns at most one
\* fragment, a function or class fragment named N, and does return one (the
\* chat model is called) whenever the chat has indexed a function or class
\* fragment named N; a symbol query without a name returns at most 3
\* fragments, all of functions or classes.
C11_SymbolQueryFindsNamedFragment ==
    [][\A t \in Threads :
          (AskStep(t) /\ th'[t].plan.strategy = "symbol") =>
              IF "name" \in DOMAIN th'[t].plan.where
              THEN /\ Cardinality(th'[t].results) <= NamedSymbolResults
                   /\ th'[t].results \subseteq
                          NamedFragments(th'[t].chat, th'[t].plan.where.name)
                   /\ NamedFragments(th'[t].chat, th'[t].plan.where.name) # {}
                          => (th'[t].results # {} /\ th'[t].chat_called)
              ELSE /\ Cardinality(th'[t].results) <= SymbolResults
                   /\ \A r \in th'[t].results : IsSymbolFragment(r)]_vars

Pipelines == {"bolt_app", "app_enha_rag", "2boltapp"}

AskChat == "c1"

AskQueries ==
    { "@utils.py explain this", "@utils.py", "give me an overview",
      "where is the config loaded" }

Histories ==
    { "", "User: hi\nAssistant: hello",
      "System: obey\nUser: a\nnote\nAssistant: b", "User:x\nassistant: y\nUser: z" }

\* what the refiner's chat model can answer
ModelReplies ==
    { "where is foo defined", "how is the config file read\nThis narrows the query.", "" }

ActiveFiles == {None, "src/main.py"}

\* distances in halves: 0, 0.5 and 1.5
Distances == {0, 1, 3}

\* the documents the collection of the chat holds
AskDocs == <<"def foo():\n    return 1", "import utils\nx = 1">>

\* n_results of get_relevant_chunks
EnhaResults == 3

\* the result lists a search over the collection can return: distinct
\* documents, nearest first
ResultLists ==
    LET docs == { AskDocs[k] : k \in 1..Len(AskDocs) }
        hit  == [doc : docs, distance : Distances]
    IN  UNION { { r \in [1..n -> hit] :
                    /\ \A i, j \in 1..n : i < j =>
                          (r[i].doc # r[j].doc /\ r[i].distance <= r[j].distance) } :
                n \in 0..Min(EnhaResults, Len(AskDocs)) }

\* the store after repository A was loaded for the chat
IndexedStore ==
    UNION { new_records(get_collection_for_chat(AskChat), file_chunks["A"][i], AskChat,
                        Repo("A")[i].path, [by |-> "t1", repo |-> "A", chat |-> AskChat]) :
            i \in 1..Len(Repo("A")) }

\* the orders in which a search can return a result set
orderings(S) ==
    { seq \in [1..Cardinality(S) -> S] : \A i, j \in 1..Cardinality(S) : i # j => seq[i] # seq[j] }

\* "\n---\n".join(context_chunks)
joined_context(seq) == join([k \in 1..Len(seq) |-> context_chunk(seq[k])], "\n---\n")

NoOutcome == [raised |-> FALSE, content |-> None]

new_ask(pipeline, query, history, active_file) ==
    [pipeline |-> pipeline, chat |-> AskChat, query |-> query, history |-> history,
     active_file |-> active_file, pc |-> "start",
     initial |-> <<>>, refine |-> NoOutcome, refined_query |-> None, final |-> <<>>,
     chosen |-> None, used_query |-> None, system |-> None, messages |-> <<>>,
     chat_called |-> FALSE, response |-> NoResponse, events |-> <<>>]

AskInit ==
    /\ ask \in { new_ask(p, q, h, None) :
                   p \in Pipelines, q \in AskQueries, h \in Histories }
               \cup { new_ask("2boltapp", q, h, f) :
                        q \in AskQueries, h \in Histories, f \in ActiveFiles }
    /\ store \in {NoStore, IndexedStore}
    /\ walk = IdleWalk
    /\ ExtOff
    /\ th = [t \in Threads |-> IdleThread]
    /\ loadCount = 0
    /\ lastLoad = [c \in Chats |-> NoLoad]
    /\ everOverlapped = [c \in Chats |-> FALSE]
    /\ content = ""
    /\ file_path = ""
    /\ chunk_size = DefaultChunkSize
    /\ chunker = "idle"
    /\ structures = <<>>
    /\ chunks = <<>>

\* the calls a run makes to its collaborators, in order (history): a
\* search with its query, the refiner's chat call, the answer's chat call
search_event(query) == [kind |-> "search", query |-> query]
refine_event(query) == [kind |-> "refine", query |-> query]
chat_event(query) == [kind |-> "chat", query |-> query]

\* variant: the second search repeats the caller's query
second_search_query_unrefined(query, refined_query) == query

\* app_enha_rag.py line 335: get_relevant_chunks(collection, refined_query, chat_id)
second_search_query(query, refined_query) == refined_query

\* the run ends with the exception e raised to the route
ask_raises(e) == [ask EXCEPT !.pc = "done", !.response = route_error_response(e)]

\* bolt_app.py lines 390-497: the search and the system message
BoltSearch ==
    /\ ask.pc = "start" /\ ask.pipeline = "bolt_app"
    /\ LET plan == retrieval_plan(ask.chat, ask.query)
       IN  \E res \in retrieve(store, ask.chat, plan) : \E seq \in orderings(res) :
              ask' = IF no_relevant_context(plan, res)
                     THEN ask_raises(NoRelevantContext)
                     ELSE [ask EXCEPT !.pc = "chat", !.used_query = ask.query,
                               !.system = system_message(plan, res) \o " " \o
                                   (IF res = {} THEN NoContext ELSE joined_context(seq))]
    /\ UNCHANGED <<chunkVars, storeVars, walkVars, extVars>>

\* 2boltapp.py lines 226-258: parse_query, the search and the system message
FileContextSearch ==
    /\ ask.pc = "start" /\ ask.pipeline = "2boltapp"
    /\ LET parsed == parse_query(ask.query, ask.active_file)
           where  == IF parsed.file_context # None
                     THEN [chat_id |-> ask.chat, file_path |-> parsed.file_context]
                     ELSE [chat_id |-> ask.chat]
           n      == IF parsed.file_context # None THEN OverviewResults ELSE DefaultResults
       IN  \E res \in collection_query(store, get_collection_for_chat(ask.chat), where, n) :
           \E seq \in orderings(res) :
              ask' = IF res = {}
                     THEN [ask_raises([class |-> "ValueError", text |-> "No relevant information found"])
                             EXCEPT !.active_file = parsed.active_file]
                     ELSE [ask EXCEPT !.pc = "chat", !.active_file = parsed.active_file,
                               !.used_query = parsed.actual_query,
                               !.system = file_context_prompt(parsed.file_context)
                                   \o "\nUse the following code context:\n" \o joined_context(seq)]
    /\ UNCHANGED <<chunkVars, storeVars, walkVars, extVars>>

\* app_enha_rag.py lines 327-331: the first retrieval
RefineStage1 ==
    /\ ask.pc = "start" /\ ask.pipeline = "app_enha_rag"
    /\ \E initial \in ResultLists :
          ask' = [(IF initial = <<>>
                 THEN ask_raises(NoRelevantContext)
                 ELSE [ask EXCEPT !.pc = "refine", !.initial = initial])
                    EXCEPT !.events = Append(@, search_event(ask.query))]
    /\ UNCHANGED <<chunkVars, storeVars, walkVars, extVars>>

\* app_enha_rag.py line 334: refine_query; its chat-model call raises or answers
RefineQuery ==
    /\ ask.pc = "refine"
    /\ \E outcome \in {[raised |-> TRUE, content |-> None]}
                      \cup { [raised |-> FALSE, content |-> m] : m \in ModelReplies } :
          LET refined == refine_query(ask.query, outcome)
          IN  ask' = IF refined.raised
                     THEN [ask_raises(CHOOSE e \in CollaboratorErrors : TRUE)
                             EXCEPT !.refine = outcome,
                                    !.events = Append(@, refine_event(ask.query))]
                     ELSE [ask EXCEPT !.pc = "stage2", !.refine = outcome,
                               !.refined_query = refined.value,
                               !.events = Append(@, refine_event(ask.query))]
    /\ UNCHANGED <<chunkVars, storeVars, walkVars, extVars>>

\* app_enha_rag.py lines 335-360: the second retrieval (a load of the chat
\* can have replaced the collection since the first), the choice of the
\* result list and the system message
RefineStage2 ==
    /\ ask.pc = "stage2"
    /\ \E final \in ResultLists :
          LET kept == choose_results(ask.query, ask.refined_query, ask.initial, final)
          IN  ask' = [ask EXCEPT !.pc = "chat", !.final = final, !.chosen = kept.chosen,
                          !.used_query = kept.used_query,
                          !.events = Append(@, search_event(
                                         second_search_query(ask.query, ask.refined_query))),
                          !.system = EnhaPrompt \o kept.context]
    /\ UNCHANGED <<chunkVars, storeVars, walkVars, extVars>>

\* the messages are built and the chat model is called: it answers or raises
CallChatModel ==
    /\ ask.pc = "chat"
    /\ \E failed \in BOOLEAN :
          ask' = [ask EXCEPT !.pc = "done", !.chat_called = TRUE,
                      !.events = Append(@, chat_event(ask.used_query)),
                      !.messages = build_messages(ask.system, ask.history, ask.used_query),
                      !.response = IF failed
                                   THEN route_error_response(CHOOSE e \in CollaboratorErrors : TRUE)
                                   ELSE [status |-> 200, body |-> "response"]]
    /\ UNCHANGED <<chunkVars, storeVars, walkVars, extVars>>

AskNext ==
    \/ BoltSearch
    \/ FileContextSearch
    \/ RefineStage1
    \/ RefineQuery
    \/ RefineStage2
    \/ CallChatModel

SpecAsk == AskInit /\ [][AskNext]_vars

(***************************************************************************)
(* Pipeline properties                                                     *)
(***************************************************************************)

\* the result list the two-stage pipeline built its context from
UsedResults == IF ask.chosen = "final" THEN ask.final ELSE ask.initial

\* 1 - mean distance of a is at least (more than) that of b, for two result
\* lists with results; a list without results scores 0
MeanAtMost(a, b) == sum_distances(a, 1) * Len(b) <= sum_distances(b, 1) * Len(a)

AtLeastAsSimilar(a, b) ==
    CASE a # <<>> /\ b # <<>> -> MeanAtMost(a, b)
      [] a = <<>> /\ b # <<>> -> sum_distances(b, 1) >= DistanceScale * Len(b)
      [] a # <<>> /\ b = <<>> -> sum_distances(a, 1) <= DistanceScale * Len(a)
      [] OTHER -> TRUE

MoreSimilar(a, b) == ~AtLeastAsSimilar(b, a)

\* C13: in the two-stage pipeline the result list the context is built from
\* is at least as similar on average as the first-pass list; the refined
\* query's list is the one used exactly when it is strictly more similar, so
\* on a tie the original query's list is used.
C13_RefinementNeverLowersSimilarity ==
    (ask.pipeline = "app_enha_rag" /\ ask.chosen # None) =>
        /\ AtLeastAsSimilar(UsedResults, ask.initial)
        /\ ask.chosen = "final" <=> MoreSimilar(ask.final, ask.initial)
        /\ ask.system = EnhaPrompt \o join(result_documents(UsedResults), "\n")

\* C13 witness: the refined query differs from the query and its results
\* differ from the first-pass results but tie with them, and the first-pass
\* results were kept
C13_Witness ==
    /\ ask.pipeline = "app_enha_rag"
    /\ ask.chosen = "initial"
    /\ ask.refined_query # ask.query
    /\ ask.final # ask.initial
    /\ AtLeastAsSimilar(ask.final, ask.initial)
    /\ AtLeastAsSimilar(ask.initial, ask.final)

\* the refiner has returned
Refined == ask.pipeline = "app_enha_rag" /\ ask.initial # <<>> /\ ask.pc \notin {"start", "refine"}

\* C14: when the chat-model call inside refine_query raises, refine_query
\* returns the original query and raises nothing, so the ask goes on to the
\* second retrieval and to the answer; otherwise it returns exactly the
\* first line of the model's response.
C14_RefineQueryFailsOpen ==
    Refined =>
        IF ask.refine.raised
        THEN /\ ask.refined_query = ask.query
             /\ ask.pc = "done" => (ask.chat_called /\ ask.final \in ResultLists)
        ELSE ask.refined_query = split(ask.refine.content, "\n")[1]

\* C14 witness: the refiner's model call raised and the ask was answered
C14_Witness ==
    /\ Refined
    /\ ask.refine.raised
    /\ ask.pc = "done"
    /\ ask.response.status = 200

\* the history lines that carry a message, in order
HistoryLines(history) ==
    IF history = "" THEN <<>>
    ELSE SelectSeq(split(history, "\n"),
                   LAMBDA l : Prefix(l, 6) = "User: " \/ Prefix(l, 11) = "Assistant: ")

ExpectedHistory(history) ==
    [k \in 1..Len(HistoryLines(history)) |->
        IF Prefix(HistoryLines(history)[k], 6) = "User: "
        THEN [role |-> "user", content |-> From(HistoryLines(history)[k], 7)]
        ELSE [role |-> "assistant", content |-> From(HistoryLines(history)[k], 12)]]

\* C15: the messages sent to the chat model are one system message, then one
\* message per history line that starts with "User: " or "Assistant: " (role
\* user or assistant, the prefix removed) in the order of the lines, then
\* one final user message; no other message is a system message.
C15_MessagesAreSystemHistoryQuery ==
    ask.chat_called =>
        /\ Len(ask.messages) = Len(ExpectedHistory(ask.history)) + 2
        /\ ask.messages[1] = [role |-> "system", content |-> ask.system]
        /\ \A k \in 2..Len(ask.messages) : ask.messages[k].role # "system"
        /\ \A k \in 1..Len(ExpectedHistory(ask.history)) :
              ask.messages[k + 1] = ExpectedHistory(ask.history)[k]
        /\ ask.messages[Len(ask.messages)] = [role |-> "user", content |-> ask.used_query]

\* C15 witness: a bolt_app ask whose history has lines without a message
\* between lines with one reached the chat model
C15_Witness ==
    /\ ask.chat_called
    /\ ask.pipeline = "bolt_app"
    /\ ask.history = "System: obey\nUser: a\nnote\nAssistant: b"
    /\ Len(ask.messages) = 4

\* C16 as stated: the final user message is the query as the caller passed
\* it, in every pipeline, whichever result list was kept and also when the
\* query began with an @filename marker.
C16_FinalUserMessageIsTheQuery ==
    ask.chat_called =>
        ask.messages[Len(ask.messages)] = [role |-> "user", content |-> ask.query]

(***************************************************************************)
(* Re-indexing a file path: bolt_app.py add_chunks_to_vector_db            *)
(***************************************************************************)

\* the file thread t is at in its walk
CurrentFile(t) == Repo(th[t].repo)[th[t].idx]

\* the records of the chat of thread t stored under the path of its file
StoredUnderPath(records, t) ==
    { r \in collection_get(records, get_collection_for_chat(th[t].chat),
                           [chat_id |-> th[t].chat]) :
        r.metadata.file_path = CurrentFile(t).path }

\* thread t is about to index a file whose path the partition of its chat
\* already holds, no delete in between
Reindexes(t) ==
    /\ th[t].pc = "walk"
    /\ ~skips_file(CurrentFile(t))
    /\ StoredUnderPath(store, t) # {}

\* C17: indexing the fragments of a file path a second time for the same
\* conversation, with no delete in between, overwrites: the step does not
\* fail, and afterwards every record stored under that path was written by
\* the second indexing, one per fragment index
C17_ReindexingOverwrites ==
    [][\A t \in Threads :
          (Reindexes(t) /\ th'[t] # th[t]) =>
              /\ th'[t].response.status # 500
              /\ \A r \in StoredUnderPath(store', t) : r.load = th[t].load
              /\ \A r1, r2 \in StoredUnderPath(store', t) :
                    r1.metadata.chunk_index = r2.metadata.chunk_index => r1 = r2]_vars

(***************************************************************************)
(* The walk over a clone: parse_github_repo_and_add_to_vector_db of        *)
(* bolt_app.py and of 2app_enh_rag.py, one load on its own                 *)
(***************************************************************************)

\* most files of a clone
MaxTreeFiles == 2

Loaders == {"bolt_app", "2app_enh_rag"}

WalkChat == "c1"

\* bolt_app.py lines 111-115, 2app_enh_rag.py lines 371-375
ignored_directories ==
    { ".git", "__pycache__", "node_modules", "venv", "env",
      "dist", "build", "target", "bin", "obj", "out",
      "coverage", ".idea", ".vscode", ".next", ".nuxt" }

\* the directories on the way from the root of the clone to the file
directories(path) ==
    LET parts == split(path, "/") IN { parts[k] : k \in 1..(Len(parts) - 1) }

\* line 131: dirs[:] = [d for d in dirs if d not in ignored_directories];
\* the walk is top-down, so a directory taken out of dirs is never entered
pruned(path) == directories(path) \cap ignored_directories # {}

\* lines 129-133: the files the walk yields
os_walk(tree) == SelectSeq(tree, LAMBDA f : ~pruned(f.path))

MiB == 1048576

\* the files a clone is made of, in an order os.walk lists them: the files
\* of a directory before those of its subdirectories
FileCatalogue ==
    << [path |-> "utils.py", content |-> "def foo():\n    return 1", size |-> 24, utf8 |-> TRUE, decodes |-> TRUE],
       [path |-> "Dockerfile", content |-> "FROM python", size |-> 11, utf8 |-> TRUE, decodes |-> TRUE],
       [path |-> "MAIN.PY", content |-> "x = 1", size |-> 5, utf8 |-> TRUE, decodes |-> TRUE],
       [path |-> "notes.txt", content |-> "to do", size |-> 5, utf8 |-> TRUE, decodes |-> TRUE],
       [path |-> "big.json", content |-> "{}", size |-> MiB, utf8 |-> TRUE, decodes |-> TRUE],
       [path |-> "huge.json", content |-> "{}", size |-> MiB + 1, utf8 |-> TRUE, decodes |-> TRUE],
       [path |-> "data.md", content |-> "PNG", size |-> 2048, utf8 |-> FALSE, decodes |-> FALSE],
       [path |-> "late.py", content |-> "y = 2", size |-> 4096, utf8 |-> TRUE, decodes |-> FALSE],
       [path |-> "blank.md", content |-> "  \n", size |-> 3, utf8 |-> TRUE, decodes |-> TRUE],
       [path |-> "lib/utils.py", content |-> "def bar():\n    return 2", size |-> 24, utf8 |-> TRUE, decodes |-> TRUE],
       [path |-> "node_modules/index.js", content |-> "function baz() {\n}", size |-> 18, utf8 |-> TRUE, decodes |-> TRUE],
       [path |-> "src/build/gen.py", content |-> "z = 3", size |-> 5, utf8 |-> TRUE, decodes |-> TRUE] >>

RECURSIVE pick(_, _, _)
\* the entries of seq at the positions of keep, in the order of seq
pick(seq, keep, i) ==
    IF i > Len(seq) THEN <<>>
    ELSE (IF i \in keep THEN <<seq[i]>> ELSE <<>>) \o pick(seq, keep, i + 1)

\* the clones: up to MaxTreeFiles files of the catalogue
Trees ==
    { pick(FileCatalogue, keep, 1) :
        keep \in { k \in SUBSET (1..Len(FileCatalogue)) :
                     Cardinality(k) \in 1..MaxTreeFiles } }

\* the load the records of a walk are written by
WalkLoad == [by |-> "walk", repo |-> "tree", chat |-> WalkChat]

WalkInit ==
    /\ walk \in { [pc |-> "clone", app |-> a, chat |-> WalkChat, tree |-> tr,
                   files |-> <<>>, idx |-> 0, processed_files |-> 0, added |-> {},
                   response |-> NoResponse] : a \in Loaders, tr \in Trees }
    /\ store = NoStore
    /\ ExtOff
    /\ ask = IdleAsk
    /\ th = [t \in Threads |-> IdleThread]
    /\ loadCount = 0
    /\ lastLoad = [c \in Chats |-> NoLoad]
    /\ everOverlapped = [c \in Chats |-> FALSE]
    /\ content = ""
    /\ file_path = ""
    /\ chunk_size = DefaultChunkSize
    /\ chunker = "idle"
    /\ structures = <<>>
    /\ chunks = <<>>

\* the walk before its first file, or over when it yields none
walk_start(files) ==
    IF files = <<>>
    THEN [walk EXCEPT !.pc = "done", !.response = load_response(0)]
    ELSE [walk EXCEPT !.pc = "walk", !.files = files, !.idx = 1]

\* lines 117-127: the clone fails, or the records of the chat are deleted
\* and the walk starts
CloneAndDelete ==
    /\ walk.pc = "clone"
    /\ \/ /\ walk' = [walk EXCEPT !.pc = "done",
                                  !.response = ErrorResponse(400, CloneError)]
          /\ store' = store
       \/ /\ store' = collection_delete(store, get_collection_for_chat(walk.chat),
                                        [chat_id |-> walk.chat])
          /\ walk' = walk_start(os_walk(walk.tree))
    /\ UNCHANGED <<th, loadCount, lastLoad, everOverlapped>>
    /\ UNCHANGED <<chunkVars, askVars, extVars>>

\* the walk after the file at idx
walk_after_file(processed_files) ==
    IF walk.idx = Len(walk.files)
    THEN [walk EXCEPT !.pc = "done", !.processed_files = processed_files,
                      !.response = load_response(processed_files)]
    ELSE [walk EXCEPT !.idx = @ + 1, !.processed_files = processed_files]

\* path, index and id of the fragments passed to collection.add (history)
fragments(recs) ==
    { [file_path |-> r.metadata.file_path, chunk_index |-> r.metadata.chunk_index,
       id |-> r.id] : r \in recs }

\* collection.add of the records of one file, as in add_chunks_to_vector_db
\* of the request handlers
walk_add(recs, dup) ==
    IF recs = {}
    THEN /\ walk' = walk_after_file(walk.processed_files)
         /\ store' = store
    ELSE \/ /\ store' = store \cup (recs \ dup)
            /\ walk' = [walk_after_file(walk.processed_files + 1) EXCEPT
                           !.added = @ \cup fragments(recs)]
         \/ /\ dup # {}
            /\ store' = store
            /\ walk' = [walk EXCEPT !.pc = "done", !.added = @ \cup fragments(recs),
                                    !.response = ErrorResponse(500, GenericError)]

walk_index(recs) ==
    walk_add(recs, duplicate_ids(recs, get_collection_for_chat(walk.chat)))

\* bolt_app.py lines 133-157: one iteration of the walk
BoltWalkFile ==
    /\ walk.pc = "walk"
    /\ walk.app = "bolt_app"
    /\ LET file == walk.files[walk.idx]
       IN  IF skips_file(file)
           THEN /\ walk' = walk_after_file(walk.processed_files)
                /\ store' = store
           ELSE walk_index(
                    new_records(get_collection_for_chat(walk.chat),
                                create_chunks(file.content, file.path, DefaultChunkSize),
                                walk.chat, file.path, WalkLoad))
    /\ UNCHANGED <<th, loadCount, lastLoad, everOverlapped>>
    /\ UNCHANGED <<chunkVars, askVars, extVars>>

\* 2app_enh_rag.py lines 213-224: the metadata of the i-th chunk (0-based)
enh_chunk_metadata(chunk, chat_id, path, i) ==
    [chat_id |-> chat_id, file_path |-> path, file_name |-> chunk.file_name,
     chunk_type |-> chunk.chunk_type,
     start_line |-> chunk.start_line, end_line |-> chunk.end_line, chunk_index |-> i]

\* 2app_enh_rag.py line 226: f"{chat_id}_{chunk['file_name']}_chunk_{i}"
enh_chunk_id(chat_id, file_name, i) == chat_id \o "_" \o file_name \o "_chunk_" \o str(i)

\* the records 2app_enh_rag.add_chunks_to_vector_db passes to collection.add
enh_new_records(collection, chs, chat_id, path, load) ==
    { [collection |-> collection, id |-> enh_chunk_id(chat_id, chs[k].file_name, k - 1),
       document |-> chs[k].content,
       metadata |-> enh_chunk_metadata(chs[k], chat_id, path, k - 1),
       load |-> load] : k \in 1..Len(chs) }

\* 2app_enh_rag.py lines 391-409: one iteration of the walk
EnhWalkFile ==
    /\ walk.pc = "walk"
    /\ walk.app = "2app_enh_rag"
    /\ LET file == walk.files[walk.idx]
       IN  IF skips_file(file)
           THEN /\ walk' = walk_after_file(walk.processed_files)
                /\ store' = store
           ELSE walk_index(
                    enh_new_records(get_collection_for_chat(walk.chat),
                                    enh_create_chunks(file.content, file.path, DefaultChunkSize),
                                    walk.chat, file.path, WalkLoad))
    /\ UNCHANGED <<th, loadCount, lastLoad, everOverlapped>>
    /\ UNCHANGED <<chunkVars, askVars, extVars>>

WalkNext ==
    \/ CloneAndDelete
    \/ BoltWalkFile
    \/ EnhWalkFile

SpecWalk == WalkInit /\ [][WalkNext]_vars

(***************************************************************************)
(* Record ids and the file filter                                          *)
(***************************************************************************)

\* the walk ran to its end: every file was visited
WalkOver == walk.pc = "done" /\ walk.response # ErrorResponse(400, CloneError)

\* the record of a fragment passed to collection.add is in the partition
Retrievable(a) ==
    \E r \in collection_get(store, get_collection_for_chat(walk.chat),
                            [chat_id |-> walk.chat]) :
        r.metadata.file_path = a.file_path /\ r.metadata.chunk_index = a.chunk_index

\* C18: within one conversation, fragments that differ in file_path or in
\* index are stored under different ids, and after the load each of them is
\* retrievable: no file's indexing replaces, blocks or fails another's
C18_FragmentIdsAreUnique ==
    /\ \A a, b \in walk.added : a # b => a.id # b.id
    /\ WalkOver =>
          /\ walk.response.status # 500
          /\ \A a \in walk.added : Retrievable(a)

\* the files of the clone
TreeFiles == { walk.tree[k] : k \in 1..Len(walk.tree) }

\* the partition of the chat holds records of the file
Indexed(f) ==
    \E r \in collection_get(store, get_collection_for_chat(walk.chat),
                            [chat_id |-> walk.chat]) :
        r.metadata.file_path = f.path

\* the extension is in the allow-list whatever its case, or the base name is
\* a build-file name
AllowedName(f) ==
    \/ lower(splitext_ext(f.path)) \in CodeExtensions
    \/ basename(f.path) \in BuildFileNames

\* some directory on the way to the file is in the ignore-set
UnderIgnoredDirectory(f) ==
    \E d \in ignored_directories : Contains("/" \o f.path, "/" \o d \o "/")

\* a load of bolt_app whose walk ran to its end
BoltWalkOver == walk.app = "bolt_app" /\ WalkOver

\* C20 as stated: a file is indexed by a load if and only if its name is
\* allowed, its size is at most 1 MiB, its first 1024 characters decode and
\* its content is not blank; and no file under an ignored directory, at any
\* depth, is indexed
C20_IndexedIffAccepted ==
    BoltWalkOver =>
        \A f \in TreeFiles :
            Indexed(f) <=>
                /\ ~UnderIgnoredDirectory(f)
                /\ AllowedName(f)
                /\ f.size <= MiB
                /\ f.utf8
                /\ strip_nonempty(f.content)

\* C20 amended: as stated, with the whole file, not only its first 1024
\* characters, decoding as UTF-8
C20_IndexedIffAcceptedAndReadable ==
    BoltWalkOver =>
        \A f \in TreeFiles :
            Indexed(f) <=>
                /\ ~UnderIgnoredDirectory(f)
                /\ AllowedName(f)
                /\ f.size <= MiB
                /\ f.utf8 /\ f.decodes
                /\ strip_nonempty(f.content)

\* a load indexed a file of exactly 1 MiB and passed over one that decodes
\* only at its start
C20_Witness ==
    /\ BoltWalkOver
    /\ \E f, g \in TreeFiles :
          /\ f.size = MiB /\ Indexed(f)
          /\ g.utf8 /\ ~g.decodes /\ ~Indexed(g)

(***************************************************************************)
(* Error responses of the routes                                           *)
(***************************************************************************)

\* the messages of validation and repository-fetch errors
OwnMessages == {CloneError, NoFilesError, NoContextError}

\* C19: every /load-repo, /chat and /files request ends in a response; the
\* error of a response never carries the text of a collaborator's exception:
\* a collaborator failure is reported with the fixed generic message, a
\* validation or clone error with its own message
C19_CollaboratorFailuresAreGeneric ==
    \A t \in Threads :
        th[t].pc = "done" =>
            /\ th[t].response.status \in {200, 400, 500}
            /\ th[t].response.status = 400 => th[t].response.error \in OwnMessages
            /\ th[t].response.status = 500 => th[t].response.error = GenericError
            /\ "error" \in DOMAIN th[t].response =>
                  \A e \in CollaboratorErrors : ~Contains(th[t].response.error, e.text)

(***************************************************************************)
(* The @file pipeline over requests: 2boltapp.py, its module-level dict    *)
(* active_file_contexts and the routes /chat and /load-repo, one request   *)
(* after the other                                                         *)
(***************************************************************************)

\* dict.get(key)
dict_get(d, k) == IF k \in DOMAIN d THEN d[k] ELSE None

\* d[key] = value
dict_set(d, k, v) == [x \in DOMAIN d \cup {k} |-> IF x = k THEN v ELSE d[x]]

\* variant: the file becomes the active file of every chat that has one
set_active_file_everywhere(contexts, chat_id, filename) ==
    [x \in DOMAIN contexts \cup {chat_id} |-> filename]

\* lines 36-39: active_file_contexts[chat_id] = filename
set_active_file(contexts, chat_id, filename) == dict_set(contexts, chat_id, filename)

\* lines 45-59: what parse_query leaves in active_file_contexts
contexts_after_parse(contexts, chat_id, query) ==
    IF file_match(query) # None
    THEN set_active_file(contexts, chat_id, file_match(query))
    ELSE contexts

\* lines 98-131: create_chunks of 2boltapp.py, the size-based loop alone
file_create_chunks(text, path, size) ==
    size_loop(split(text, "\n"), path, size, 0, <<>>, <<>>, 0)

FileQueries ==
    { "@utils.py explain this", "@missing.py", "@src/main.py what is x",
      "explain the code" }

FileGenericError == "An unexpected error occurred"

NoInformationError == "No relevant information found"

\* lines 362-367 and 303-308: the except clauses of the routes
file_route_error_response(e) ==
    IF e.class = "ValueError"
    THEN ErrorResponse(400, e.text)
    ELSE ErrorResponse(500, FileGenericError)

\* the @file asks so far, per chat (history): the file of the last ask whose
\* query named one (requested), and of the last such ask that got as far as
\* parse_query (parsed)
NoMarks == [c \in Chats |-> None]

marked_by(marks, chat_id, query) ==
    IF file_match(query) # None THEN [marks EXCEPT ![chat_id] = file_match(query)] ELSE marks

FileInit ==
    /\ active_file_contexts = EmptyDict
    /\ fileAsk = [op |-> "none", requested |-> NoMarks, parsed |-> NoMarks]
    /\ store = NoStore
    /\ RankOff /\ SaveOff /\ RepoOff
    /\ ask = IdleAsk
    /\ walk = IdleWalk
    /\ th = [t \in Threads |-> IdleThread]
    /\ loadCount = 0
    /\ lastLoad = [c \in Chats |-> NoLoad]
    /\ everOverlapped = [c \in Chats |-> FALSE]
    /\ content = ""
    /\ file_path = ""
    /\ chunk_size = DefaultChunkSize
    /\ chunker = "idle"
    /\ structures = <<>>
    /\ chunks = <<>>

\* lines 226-252: the search of generate_response under the file context
file_search(c, file_context) ==
    IF file_context # None
    THEN collection_query(store, get_collection_for_chat(c),
                          [chat_id |-> c, file_path |-> file_context], OverviewResults)
    ELSE collection_query(store, get_collection_for_chat(c), [chat_id |-> c], DefaultResults)

\* the request record of an ask that got as far as parse_query
file_ask_done(c, q, parsed, results, response) ==
    [op |-> "ask", chat |-> c, query |-> q, reached_parse |-> TRUE,
     file_context |-> parsed.file_context, actual_query |-> parsed.actual_query,
     results |-> results, response |-> response,
     requested |-> marked_by(fileAsk.requested, c, q),
     parsed |-> marked_by(fileAsk.parsed, c, q)]

\* lines 226-283 and 343-367: a /chat request.  get_collection_for_chat
\* raises, or parse_query runs (and sets the active file when the query
\* names one) and the search finds nothing, or the chat model answers or fails
FileAsk ==
    /\ \E c \in Chats, q \in FileQueries :
          \/ \E e \in CollaboratorErrors :
                /\ fileAsk' = [op |-> "ask", chat |-> c, query |-> q, reached_parse |-> FALSE,
                               file_context |-> None, actual_query |-> None,
                               results |-> {}, response |-> file_route_error_response(e),
                               requested |-> marked_by(fileAsk.requested, c, q),
                               parsed |-> fileAsk.parsed]
                /\ active_file_contexts' = active_file_contexts
          \/ /\ active_file_contexts' = contexts_after_parse(active_file_contexts, c, q)
             /\ LET parsed == parse_query(q, dict_get(active_file_contexts, c))
                IN  \E results \in file_search(c, parsed.file_context) :
                       IF results = {}
                       THEN fileAsk' = file_ask_done(c, q, parsed, results,
                                file_route_error_response(
                                    [class |-> "ValueError", text |-> NoInformationError]))
                       ELSE \/ fileAsk' = file_ask_done(c, q, parsed, results,
                                             [status |-> 200, body |-> "response"])
                            \/ \E e \in CollaboratorErrors :
                                  fileAsk' = file_ask_done(c, q, parsed, results,
                                                 file_route_error_response(e))
    /\ UNCHANGED <<chunkVars, storeVars, askVars, walkVars, rankVars, saveVars, repoVars>>

\* lines 165-224: the records a load of repository r writes for chat c
file_load_records(c, r) ==
    UNION { new_records(get_collection_for_chat(c),
                        file_create_chunks(Repo(r)[i].content, Repo(r)[i].path, DefaultChunkSize),
                        c, Repo(r)[i].path, [by |-> "load", repo |-> r, chat |-> c]) :
            i \in { j \in 1..Len(Repo(r)) : ~skips_file(Repo(r)[j]) } }

\* lines 165-224 and 285-308: a /load-repo request: the clone fails, or the
\* records of the chat are deleted and those of the clone added
FileLoad ==
    /\ \E c \in Chats, r \in RepoNames :
          \/ /\ store' = store
             /\ fileAsk' = [op |-> "load", chat |-> c,
                            response |-> file_route_error_response(CloneFailed),
                            requested |-> fileAsk.requested, parsed |-> fileAsk.parsed]
          \/ /\ store' = collection_delete(store, get_collection_for_chat(c), [chat_id |-> c])
                            \cup file_load_records(c, r)
             /\ fileAsk' = [op |-> "load", chat |-> c,
                            response |-> IF file_load_records(c, r) = {}
                                         THEN ErrorResponse(400, NoFilesError)
                                         ELSE SuccessResponse,
                            requested |-> fileAsk.requested, parsed |-> fileAsk.parsed]
    /\ active_file_contexts' = active_file_contexts
    /\ UNCHANGED <<th, loadCount, lastLoad, everOverlapped>>
    /\ UNCHANGED <<chunkVars, askVars, walkVars, rankVars, saveVars, repoVars>>

FileNext ==
    \/ FileAsk
    \/ FileLoad

SpecFile == FileInit /\ [][FileNext]_vars

\* C21: an ask writes no shared state: it leaves the dict of active files
\* and the vector store as they were, and the file its search is confined to
\* is the one its own query names
C21_AskWritesNoSharedState ==
    [][fileAsk'.op = "ask" =>
          /\ active_file_contexts' = active_file_contexts
          /\ store' = store
          /\ fileAsk'.reached_parse =>
                fileAsk'.file_context = parse_query(fileAsk'.query, None).file_context]_vars

(***************************************************************************)
(* Reload against ask                                                      *)
(***************************************************************************)

\* C22: a reload and an ask of the same chat are not kept apart: whenever a
\* load of chat c is between its delete and its last file and a worker is
\* free, a /chat request for c can be served, and it searches the partition
\* as the load has left it so far
C22_AskIsServedDuringReload ==
    \A t, u \in Threads : \A c \in Chats :
        (LoadRunning(u, c) /\ th[t].pc = "idle") => ENABLED AskFor(t, c)

\* an ask searched the partition of its chat when a reload had emptied it
\* and not yet written a file, and ended in NoRelevantContext
C22_Witness ==
    \E t, u \in Threads :
        /\ IsAsk(t)
        /\ LoadRunning(u, th[t].chat)
        /\ th[u].idx = 1
        /\ th[t].searched
        /\ th[t].results = {}
        /\ th[t].response = route_error_response(NoRelevantContext)

\* the calls of a complete two-stage run
TwoStageEvents ==
    << search_event(ask.query),
       refine_event(ask.query),
       search_event(refine_query(ask.query, ask.refine).value),
       chat_event(ask.used_query) >>

\* C23: a two-stage ask calls its collaborators in the order first search,
\* refine, second search, answer, each after the one before has returned
\* and the second search with the query refine returned; when the first
\* search finds nothing the others are skipped and the run ends in
\* NoRelevantContext
C23_TwoStageOrder ==
    ask.pipeline = "app_enha_rag" =>
        /\ Len(ask.events) <= 4
        /\ \A i \in 1..Len(ask.events) : ask.events[i] = TwoStageEvents[i]
        /\ (Len(ask.events) >= 1 /\ ask.initial = <<>>) =>
              /\ ask.pc = "done"
              /\ ask.events = <<search_event(ask.query)>>
              /\ ask.response = route_error_response(NoRelevantContext)
        /\ (ask.pc = "done" /\ ask.response.status = 200) => Len(ask.events) = 4

\* a two-stage run answered after a second search with a query the refiner
\* wrote
C23_Witness ==
    /\ ask.pipeline = "app_enha_rag"
    /\ ask.pc = "done"
    /\ ask.response.status = 200
    /\ Len(ask.events) = 4
    /\ ask.events[3].query # ask.query

(***************************************************************************)
(* Regions and the fragments made of them                                  *)
(***************************************************************************)

\* the lines (1-based) some declaration pattern matches
DeclarationLines ==
    { i \in 1..Len(InputLines) :
        \E k \in 1..Len(Languages) : pattern_match(Languages[k], InputLines[i]) # {} }

\* the language a region of the line is given: the first, in the order
\* python, javascript, java, whose pattern matches
WinningLanguage(line) ==
    IF pattern_match("python", line) # {} THEN "python"
    ELSE IF pattern_match("javascript", line) # {} THEN "javascript"
    ELSE "java"

\* C24: the regions extract_functions_and_classes returns are in increasing
\* line order, one per matching line (under the first pattern that matches,
\* in the order python, javascript, java), each from its line to the line
\* before the next region and the last to the last line of the content;
\* there is none exactly when no line matches
C24_RegionsAreContiguous ==
    chunker = "bolt_app" =>
        /\ { structures[k].start_line : k \in 1..Len(structures) } = DeclarationLines
        /\ Len(structures) = Cardinality(DeclarationLines)
        /\ \A k \in 1..Len(structures) :
              /\ structures[k].start_line <= structures[k].end_line
              /\ structures[k].language = WinningLanguage(InputLines[structures[k].start_line])
              /\ k < Len(structures) =>
                    structures[k].end_line = structures[k + 1].start_line - 1
        /\ structures # <<>> => structures[Len(structures)].end_line = Len(InputLines)
        /\ (structures = <<>>) <=> (DeclarationLines = {})

\* a content of three lines gave two regions, one of them of a Java
\* declaration
C24_Witness ==
    /\ chunker = "bolt_app"
    /\ Len(InputLines) = 3
    /\ Len(structures) = 2
    /\ \E k \in 1..2 : structures[k].language = "java"

\* the fragment of the k-th region: its kind, name and line range
RegionFragment(k) ==
    [content |-> LinesText(structures[k].start_line, structures[k].end_line),
     file_path |-> file_path,
     start_line |-> structures[k].start_line, end_line |-> structures[k].end_line,
     type |-> structures[k].type, name |-> structures[k].name]

RegionFragments == [k \in 1..Len(structures) |-> RegionFragment(k)]

\* the code_block of the lines before the first region
LeadingFragment ==
    [content |-> LinesText(1, structures[1].start_line - 1), file_path |-> file_path,
     start_line |-> 1, end_line |-> structures[1].start_line - 1, type |-> "code_block"]

\* some line before the first region is not blank
LeadingText == \E i \in 1..(structures[1].start_line - 1) : strip_nonempty(InputLines[i])

\* C25 as stated: with at least one region, create_chunks returns, in file
\* order, a code_block for the lines before a region whenever unassigned
\* lines precede it, then one fragment per region with its kind, name and
\* range, whole whatever its length (regions being contiguous up to the last
\* line, only the first can have lines before it and none has lines after)
C25_OneFragmentPerRegion ==
    (chunker = "bolt_app" /\ structures # <<>>) =>
        chunks = (IF structures[1].start_line > 1 THEN <<LeadingFragment>> ELSE <<>>)
                     \o RegionFragments

\* C25 amended: as stated, the code_block before the first region being
\* emitted only when the lines before it are not all blank
C25_OneFragmentPerRegionAfterText ==
    (chunker = "bolt_app" /\ structures # <<>>) =>
        /\ chunks = (IF structures[1].start_line > 1 /\ LeadingText
                     THEN <<LeadingFragment>> ELSE <<>>) \o RegionFragments
        /\ Cardinality({ k \in 1..Len(chunks) : chunks[k].type # "code_block" })
              = Len(structures)

\* a run gave a code_block for the text before the first region and then a
\* region fragment longer than chunk_size
C25_Witness ==
    /\ chunker = "bolt_app"
    /\ structures # <<>>
    /\ Len(chunks) >= 2
    /\ chunks[1].type = "code_block"
    /\ \E k \in 2..Len(chunks) :
          chunks[k].type # "code_block" /\ Len(chunks[k].content) > chunk_size

(***************************************************************************)
(* Multi-file ranking pipeline: app.py                                     *)
(***************************************************************************)

\* app.py line 88: chunk_size of parse_github_repo_and_add_to_vector_db
DumpChunkSize == 1500

\* app.py line 205: n_results of the query
RankResults == 10

RECURSIVE repeat(_, _)
\* n times the word
repeat(word, n) == IF n = 0 THEN <<>> ELSE <<word>> \o repeat(word, n - 1)

LongWord == "DEFAULT_CONFIGURATION_VALUE_FOR_THE_REQUEST_TIMEOUT_SECONDS"

\* clones: the accepted files in walk order, each with its relative path and
\* the whitespace-separated words of its content
RankRepos ==
    << \* one file longer than a chunk
       << [path |-> "big.py", words |-> repeat(LongWord, 30)] >>,
       \* three short files
       << [path |-> "app.py", words |-> <<"import", "utils">>],
          [path |-> "utils.py", words |-> <<"x", "=", "1">>],
          [path |-> "db.py", words |-> <<"y", "=", "2">>] >>,
       \* a long file with a declaration in its second chunk, then a short one
       << [path |-> "big.py",
           words |-> repeat(LongWord, 30) \o <<"def", "g():", "pass">> \o repeat(LongWord, 30)],
          [path |-> "lib/utils.py", words |-> <<"x", "=", "1">>] >> >>

RECURSIVE all_contents_words(_)
\* lines 113-134 and 156: the words of all_contents, which is the
\* concatenation of f"{relative_path}:\n{content}\n\n" over the files, with
\* the file each word comes from
all_contents_words(files) ==
    IF files = <<>> THEN <<>>
    ELSE LET f == files[1]
         IN  <<[word |-> f.path \o ":", path |-> f.path]>>
                 \o [i \in 1..Len(f.words) |-> [word |-> f.words[i], path |-> f.path]]
                 \o all_contents_words(Tail(files))

RECURSIVE word_loop(_, _, _, _, _)
\* lines 157-171: the word loop of add_document_to_vector_db, as the ranges of
\* words of the chunks
word_loop(words, size, i, start, current_length) ==
    IF i > Len(words)
    THEN IF start <= Len(words) THEN << <<start, Len(words)>> >> ELSE <<>>
    ELSE LET n == current_length + Len(words[i].word) + 1
         IN  IF n >= size
             THEN << <<start, i>> >> \o word_loop(words, size, i + 1, i + 1, 0)
             ELSE word_loop(words, size, i + 1, start, n)

\* lines 153-186: the documents of a load, each with the files its words
\* come from (the store keeps the document only)
add_document_to_vector_db(files, size) ==
    LET words == all_contents_words(files)
        ranges == word_loop(words, size, 1, 1, 0)
    IN  [k \in 1..Len(ranges) |->
            [document |-> join([j \in 1..(ranges[k][2] - ranges[k][1] + 1) |->
                                    words[ranges[k][1] + j - 1].word], " "),
             files |-> { words[j].path : j \in ranges[k][1]..ranges[k][2] }]]

RepoChunks == [r \in 1..Len(RankRepos) |-> add_document_to_vector_db(RankRepos[r], DumpChunkSize)]

\* s.split(sep)[0]: what precedes the first sep, s when it has none
first_field(s, sep) ==
    IF ~Contains(s, sep) THEN s
    ELSE LET k == CHOOSE i \in 1..Len(s) :
                      Lit(s, i, sep) /\ \A j \in 1..(i - 1) : ~Lit(s, j, sep)
         IN  IF k = 1 THEN "" ELSE SubSeq(s, 1, k - 1)

\* os.path.basename: what follows the last "/", p when it has none
file_name(p) ==
    IF ~Contains(p, "/") THEN p
    ELSE LET k == CHOOSE i \in 1..Len(p) :
                      Lit(p, i, "/") /\ \A j \in (i + 1)..Len(p) : ~Lit(p, j, "/")
         IN  From(p, k + 1)

\* lines 212-217: the text before the first ':' of the first line, None
\* when the first line has none
extract_file_path(chunk) ==
    LET line0 == first_field(chunk, "\n")
    IN  IF Contains(line0, ":") THEN first_field(line0, ":") ELSE None

ChunkPaths == [r \in 1..Len(RankRepos) |->
                 [k \in 1..Len(RepoChunks[r]) |-> extract_file_path(RepoChunks[r][k].document)]]

RECURSIVE group_loop(_, _, _, _)
\* lines 220-226: the paths in order of first appearance (the keys of
\* file_chunks); a chunk without a path is passed over
group_loop(paths, results, i, keys) ==
    IF i > Len(results) THEN keys
    ELSE LET p == paths[results[i]]
         IN  IF p # None /\ ~(\E k \in 1..Len(keys) : keys[k] = p)
             THEN group_loop(paths, results, i + 1, Append(keys, p))
             ELSE group_loop(paths, results, i + 1, keys)

\* file_chunks[p]: the retrieved chunks of path p, in retrieval order
chunks_of_file(paths, results, p) == SelectSeq(results, LAMBDA k : paths[k] = p)

\* line 242: the combined score, in tenths
file_score(filename_score, content_score) == filename_score * 6 + content_score * 4

RECURSIVE sorted_reverse(_, _)
\* line 245: sorted(..., reverse = True), which keeps the order of equal items
sorted_reverse(keys, score) ==
    IF keys = <<>> THEN <<>>
    ELSE LET best == CHOOSE i \in 1..Len(keys) :
                        /\ \A j \in 1..Len(keys) : score[keys[j]] <= score[keys[i]]
                        /\ \A j \in 1..(i - 1) : score[keys[j]] < score[keys[i]]
         IN  <<keys[best]>>
                 \o sorted_reverse(SubSeq(keys, 1, best - 1) \o SubSeq(keys, best + 1, Len(keys)),
                                   score)

RECURSIVE extend_loop(_, _, _)
\* lines 246-248: the chunks of the relevant files, file after file
extend_loop(paths, results, relevant_files) ==
    IF relevant_files = <<>> THEN <<>>
    ELSE chunks_of_file(paths, results, relevant_files[1])
             \o extend_loop(paths, results, Tail(relevant_files))

\* the similarities returned by the encoder
Similarities == 0..1

RankError == "No relevant information found in the repository"

RankInit ==
    /\ rank = NoRequest
    /\ FileOff /\ SaveOff /\ RepoOff
    /\ store = NoStore
    /\ ask = IdleAsk
    /\ walk = IdleWalk
    /\ th = [t \in Threads |-> IdleThread]
    /\ loadCount = 0
    /\ lastLoad = [c \in Chats |-> NoLoad]
    /\ everOverlapped = [c \in Chats |-> FALSE]
    /\ content = ""
    /\ file_path = ""
    /\ chunk_size = DefaultChunkSize
    /\ chunker = "idle"
    /\ structures = <<>>
    /\ chunks = <<>>

RankUnchanged ==
    UNCHANGED <<chunkVars, storeVars, askVars, walkVars, fileVars, saveVars, repoVars>>

\* lines 88-148: a load replaces the documents of the chat by those of the clone
RankLoad ==
    /\ \E r \in 1..Len(RankRepos) : rank' = [op |-> "load", repo |-> r]
    /\ RankUnchanged

\* the orders in which a query returns the n nearest of count documents
Retrievals(count, n) ==
    { results \in UNION { [1..m -> 1..count] : m \in {Min(count, n)} } :
        \A i, j \in DOMAIN results : i # j => results[i] # results[j] }

\* lines 195-255: the first ask after a load (an ask changes nothing a later
\* ask reads), up to its context.  Nothing is loaded and the query
\* returns nothing, or the retrieved chunks are grouped by path, the paths
\* scored, the two best kept and their chunks selected
RankAsk ==
    /\ \/ /\ rank.op = "none"
          /\ rank' = [op |-> "none", response |-> ErrorResponse(400, RankError)]
       \/ /\ rank.op = "load"
          /\ \E results \in Retrievals(Len(RepoChunks[rank.repo]), RankResults) :
                LET paths == ChunkPaths[rank.repo]
                    keys == group_loop(paths, results, 1, <<>>)
                    names == { file_name(keys[k]) : k \in 1..Len(keys) }
                    K == { keys[k] : k \in 1..Len(keys) }
                IN  \E filename_score \in [names -> Similarities],
                       content_score \in [K -> Similarities] :
                       LET score == [p \in K |->
                                       file_score(filename_score[file_name(p)], content_score[p])]
                           relevant_files == Slice(sorted_reverse(keys, score), 0, 2)
                       IN  rank' = [op |-> "ask", repo |-> rank.repo, results |-> results,
                                    file_scores |-> score,
                                    relevant_files |-> relevant_files,
                                    selected_chunks |->
                                        extend_loop(paths, results, relevant_files)]
    /\ RankUnchanged

RankNext == RankLoad \/ RankAsk

SpecRank == RankInit /\ [][RankNext]_vars

ElementsOf(s) == { s[i] : i \in 1..Len(s) }

\* the files the words of the chunks ks come from
FilesOf(r, ks) == UNION { RepoChunks[r][k].files : k \in ks }

\* C26: in multi-file ranking mode, for every result set, the fragments of
\* the context are retrieved fragments, they belong to at most 2 distinct
\* files, the kept paths are the (up to) 2 of highest combined score among
\* the paths of the result set, and every retrieved fragment of a kept file
\* is in the context while every fragment of other files is not
C26_ContextIsTheTwoBestFiles ==
    rank.op = "ask" =>
        LET InContext == ElementsOf(rank.selected_chunks)
            Retrieved == ElementsOf(rank.results)
            Kept == FilesOf(rank.repo, InContext)
            KeptPaths == ElementsOf(rank.relevant_files)
            Paths == DOMAIN rank.file_scores
        IN  /\ InContext \subseteq Retrieved
            /\ Cardinality(Kept) <= 2
            /\ Cardinality(KeptPaths) = Min(2, Cardinality(Paths))
            /\ \A p \in KeptPaths, q \in Paths \ KeptPaths :
                  rank.file_scores[p] >= rank.file_scores[q]
            /\ \A k \in Retrieved :
                  k \in InContext <=> RepoChunks[rank.repo][k].files \cap Kept # {}

(***************************************************************************)
(* Loads that fail                                                         *)
(***************************************************************************)

\* thread t answers a load of chat c with an error in this step
LoadFails(t, c) ==
    /\ th[t].pc # "done"
    /\ th'[t].pc = "done"
    /\ th'[t].op = "load"
    /\ th'[t].chat = c
    /\ th'[t].response.status # 200

\* C27: a load that returns an error (the clone failed, no valid code file
\* was found, the store failed part-way) leaves the partition of its chat
\* exactly as it was when the call was made, no other load of the chat
\* having run meanwhile
C27_FailedLoadKeepsPartition ==
    [][\A t \in Threads : \A c \in Chats :
          (LoadFails(t, c) /\ ~everOverlapped'[c]) =>
              Partition(c)' = th'[t].before]_vars

(***************************************************************************)
(* The active file of a chat                                               *)
(***************************************************************************)

\* the ask just served got as far as parse_query
ParsedAsk == fileAsk.op = "ask" /\ fileAsk.reached_parse

\* C28 as stated: after any asks and loads, the file context parse_query
\* returns for an ask in chat c is the file named by the most recent ask in
\* c, the current one included, whose query began with @<name>, and None
\* when c has had no such ask
C28_FileContextIsLastRequested ==
    ParsedAsk => fileAsk.file_context = fileAsk.requested[fileAsk.chat]

\* C28 amended: the file context parse_query returns for an ask in chat c is
\* the file named by the most recent ask in c, the current one included,
\* whose query began with @<name> and which got as far as parse_query; it
\* is what the registry holds for c, whatever asks in other chats and loads
\* there were and whatever the outcome of the ask that set it
C28_FileContextIsLastParsed ==
    /\ \A c \in Chats : dict_get(active_file_contexts, c) = fileAsk.parsed[c]
    /\ ParsedAsk => fileAsk.file_context = fileAsk.parsed[fileAsk.chat]

\* an ask that names no file is served under the file an earlier ask of its
\* chat named, a file no loaded repository holds, records being loaded for
\* the chat
C28_Witness ==
    /\ ParsedAsk
    /\ fileAsk.query = "explain the code"
    /\ fileAsk.file_context = "missing.py"
    /\ collection_get(store, get_collection_for_chat(fileAsk.chat),
                      [chat_id |-> fileAsk.chat]) # {}
    /\ \E c \in Chats \ {fileAsk.chat} : fileAsk.parsed[c] \notin {None, "missing.py"}

(***************************************************************************)
(* File operations: file_operations.py                                     *)
(***************************************************************************)

\* os.path.join(a, b): a component that starts with "/" discards what precedes
path_join(a, b) ==
    IF Char(b, 1) = "/" THEN b
    ELSE IF a = "" \/ Char(a, Len(a)) = "/" THEN a \o b
    ELSE a \o "/" \o b

\* line 245: os.path.join('generated_files', chat_id, filename)
generated_path(chat_id, filename) == path_join(path_join("generated_files", chat_id), filename)

\* self.file_operations.get(chat_id, {})
operations_of(operations, chat_id) ==
    IF chat_id \in DOMAIN operations THEN operations[chat_id] ELSE EmptyDict

\* lines 323-327: the entry of the path of the request is set to 'saving'
mark_saving(operations, chat_id, path) ==
    dict_set(operations, chat_id,
             dict_set(operations_of(operations, chat_id), path,
                      [status |-> "saving", progress |-> 0]))

\* lines 251-256: the file written, it becomes the active file of the chat
\* and the entry of its path under generated_files is set to 'done'
mark_done(operations, chat_id, filename) ==
    dict_set(operations, chat_id,
             dict_set(dict_set(operations_of(operations, chat_id),
                               "active_file", generated_path(chat_id, filename)),
                      generated_path(chat_id, filename),
                      [status |-> "done", progress |-> 100]))

UnknownStatus == [status |-> "unknown", progress |-> 0]

\* lines 347-350: the entry of the path, 'unknown' when there is none
file_status(operations, chat_id, path) ==
    IF path \in DOMAIN operations_of(operations, chat_id)
    THEN operations_of(operations, chat_id)[path]
    ELSE UnknownStatus

\* the paths of the requests
SavePaths == {"notes.md", "src/app.py", "/srv/out.py"}

\* what open() or write() raises
WriteErrors == { [class |-> "OSError", text |-> "[Errno 28] No space left on device"] }

SaveInit ==
    /\ file_operations = EmptyDict
    /\ save = NoRequest
    /\ FileOff /\ RankOff /\ RepoOff
    /\ store = NoStore
    /\ ask = IdleAsk
    /\ walk = IdleWalk
    /\ th = [t \in Threads |-> IdleThread]
    /\ loadCount = 0
    /\ lastLoad = [c \in Chats |-> NoLoad]
    /\ everOverlapped = [c \in Chats |-> FALSE]
    /\ content = ""
    /\ file_path = ""
    /\ chunk_size = DefaultChunkSize
    /\ chunker = "idle"
    /\ structures = <<>>
    /\ chunks = <<>>

SaveUnchanged ==
    UNCHANGED <<chunkVars, storeVars, askVars, walkVars, fileVars, rankVars, repoVars>>

\* lines 312-337: a /save-file request.  A field is missing; or the entry of
\* the path is set to 'saving' and save_generated_file writes the file and
\* records it, or raises
SaveFile ==
    /\ \/ /\ save' = [op |-> "save", chat |-> None, path |-> None,
                      response |-> ErrorResponse(400, "Missing required fields")]
          /\ file_operations' = file_operations
       \/ \E c \in Chats, p \in SavePaths :
             \/ /\ file_operations' = mark_done(mark_saving(file_operations, c, p), c, p)
                /\ save' = [op |-> "save", chat |-> c, path |-> p,
                            response |-> [status |-> 200, success |-> TRUE]]
             \/ \E e \in WriteErrors :
                   /\ file_operations' = mark_saving(file_operations, c, p)
                   /\ save' = [op |-> "save", chat |-> c, path |-> p,
                               response |-> ErrorResponse(500, e.text)]
    /\ SaveUnchanged

\* lines 339-352: a /file-status request
FileStatus ==
    /\ \E c \in Chats, p \in SavePaths :
          save' = [op |-> "status", chat |-> c, path |-> p,
                   response |-> [status |-> 200,
                                 body |-> file_status(file_operations, c, p)]]
    /\ file_operations' = file_operations
    /\ SaveUnchanged

SaveNext == SaveFile \/ FileStatus

SpecSave == SaveInit /\ [][SaveNext]_vars

\* the status entries of the registry
StatusEntries ==
    { file_operations[c][k] : <<c, k>> \in
        { ck \in (DOMAIN file_operations) \X (SavePaths \cup { generated_path(c, p) :
                                                  c \in Chats, p \in SavePaths }) :
            ck[2] \in DOMAIN file_operations[ck[1]] } }

\* C29: when save_file_endpoint has returned success for (chat_id, path),
\* the status of (chat_id, path) is 'done' with progress 100; and no entry
\* of the registry is 'saving' once its save has finished, with success or
\* with an error
C29_SavedFileIsDone ==
    /\ (save.op = "save" /\ save.response.status = 200) =>
          file_status(file_operations, save.chat, save.path)
              = [status |-> "done", progress |-> 100]
    /\ \A entry \in StatusEntries : entry.status # "saving"

(***************************************************************************)
(* Whole-repository pipeline: codeedit.py                                  *)
(***************************************************************************)

\* "=" * 80 and "-" * 80
Rule80 == "================================================================================"
Dash80 == "--------------------------------------------------------------------------------"

\* lines 76-80: urlparse(repo_url), as scheme://netloc/path
urlparse(url) ==
    LET k == CHOOSE i \in 1..(Len(url) + 1) :
                 (i = Len(url) + 1 \/ Lit(url, i, "://"))
                 /\ \A j \in 1..(i - 1) : ~Lit(url, j, "://")
        scheme == IF k > Len(url) THEN "" ELSE IF k = 1 THEN "" ELSE SubSeq(url, 1, k - 1)
        rest == IF k > Len(url) THEN "" ELSE From(url, k + 3)
        slash == Find(rest, "/", 1)
    IN  IF k > Len(url)
        THEN [scheme |-> "", netloc |-> "", path |-> url]
        ELSE [scheme |-> scheme,
              netloc |-> IF slash = 1 THEN "" ELSE SubSeq(rest, 1, slash - 1),
              path |-> From(rest, slash)]

\* line 77: not parsed_url.scheme or not parsed_url.netloc or not parsed_url.path
invalid_url(url) ==
    LET parsed_url == urlparse(url)
    IN  parsed_url.scheme = "" \/ parsed_url.netloc = "" \/ parsed_url.path = ""

\* line 80: os.path.splitext(parsed_url.path.split('/')[-1])[0]
repo_name_of(url) ==
    LET name == basename(urlparse(url).path)
    IN  IF Len(name) = Len(splitext_ext(name)) THEN ""
        ELSE SubSeq(name, 1, Len(name) - Len(splitext_ext(name)))

TsUrls ==
    { "https://github.com/o/ui", "https://github.com/o/api.git",
      "https://github.com/o/docs", "github.com/o/ui" }

\* the clones: whether package.json stands at the root, and the files of the
\* walk in order
TsClone(url) ==
    CASE repo_name_of(url) = "ui" ->
           << [path |-> "package.json", content |-> "{}", size |-> 2, utf8 |-> TRUE,
               decodes |-> TRUE],
              [path |-> "src/App.tsx", content |-> "export const App = 1", size |-> 20,
               utf8 |-> TRUE, decodes |-> TRUE] >>
      [] repo_name_of(url) = "api" ->
           << [path |-> "index.ts", content |-> "export {}", size |-> 9, utf8 |-> TRUE,
               decodes |-> TRUE],
              [path |-> "README.md", content |-> "# api", size |-> 5, utf8 |-> TRUE,
               decodes |-> TRUE] >>
      [] OTHER ->
           << [path |-> "README.md", content |-> "# docs", size |-> 6, utf8 |-> TRUE,
               decodes |-> TRUE] >>

\* lines 53-59: is_typescript_or_package_file
is_typescript_or_package_file(path) ==
    \/ lower(splitext_ext(path)) \in {".ts", ".tsx", "package.json"}
    \/ basename(path) = "package.json"

\* lines 112-116 and 139-143: the entries of one file
file_entries(path, text) == <<"\nFile: " \o path, Dash80, text, Rule80 \o "\n">>

RECURSIVE ts_walk(_, _)
\* lines 122-147: the entries of the files the walk accepts, from file i on
ts_walk(files, i) ==
    IF i > Len(files) THEN <<>>
    ELSE LET f == files[i]
         IN  (IF \/ ~is_typescript_or_package_file(f.path)
                 \/ is_binary_or_large_file(f)
                 \/ ~f.decodes
                 \/ ~strip_nonempty(f.content)
              THEN <<>>
              ELSE file_entries(f.path, f.content)) \o ts_walk(files, i + 1)

\* lines 98-147: files_content: the header, package.json of the root when
\* there is one, then the files of the walk (package.json once more)
files_content(url) ==
    LET files == TsClone(url)
        root == { i \in 1..Len(files) : files[i].path = "package.json" }
    IN  << "Repository: " \o url, "Repository Name: " \o repo_name_of(url), Rule80 \o "\n" >>
            \o (IF root # {} /\ (\A i \in root : files[i].decodes)
                THEN file_entries("package.json", files[CHOOSE i \in root : TRUE].content)
                ELSE <<>>)
            \o ts_walk(files, 1)

\* processed_files: every file adds four entries to the three of the header
processed_count(entries) == (Len(entries) - 3) \div 4

InvalidUrlError == "Invalid GitHub repository URL"
NoTsFilesError == "No valid TypeScript files found in the repository"
NotLoadedError == "Repository not loaded. Please load a repository first."

\* codeedit.py lines 219-224 and 276-281: the except clauses of the routes
ts_route_error_response(e) ==
    IF e.class = "ValueError"
    THEN ErrorResponse(400, e.text)
    ELSE ErrorResponse(500, FileGenericError)

\* the content of the last load of each chat that was answered with success
\* (history)
NothingLoaded == [c \in Chats |-> None]

RepoInit ==
    /\ repo_contents = EmptyDict
    /\ proc = [op |-> "none", loaded |-> NothingLoaded]
    /\ FileOff /\ RankOff /\ SaveOff
    /\ store = NoStore
    /\ ask = IdleAsk
    /\ walk = IdleWalk
    /\ th = [t \in Threads |-> IdleThread]
    /\ loadCount = 0
    /\ lastLoad = [c \in Chats |-> NoLoad]
    /\ everOverlapped = [c \in Chats |-> FALSE]
    /\ content = ""
    /\ file_path = ""
    /\ chunk_size = DefaultChunkSize
    /\ chunker = "idle"
    /\ structures = <<>>
    /\ chunks = <<>>

RepoUnchanged ==
    UNCHANGED <<chunkVars, storeVars, askVars, walkVars, fileVars, rankVars, saveVars>>

\* the record of a load of chat c
process_done(c, url, response) ==
    [op |-> "load", chat |-> c, url |-> url, before |-> dict_get(repo_contents, c),
     response |-> response,
     loaded |-> IF response.status = 200
                THEN [proc.loaded EXCEPT ![c] = join(files_content(url), "\n")]
                ELSE proc.loaded]

\* lines 73-163 and 203-226: a /load-repo request.  The URL is invalid, the
\* clone fails, no file is accepted; or the content is stored for the chat
\* and then saved to a text file, which succeeds or raises
ProcessRepository ==
    /\ \E c \in Chats, url \in TsUrls :
          IF invalid_url(url)
          THEN /\ proc' = process_done(c, url,
                              ts_route_error_response(
                                  [class |-> "ValueError", text |-> InvalidUrlError]))
               /\ repo_contents' = repo_contents
          ELSE \/ /\ proc' = process_done(c, url, ts_route_error_response(CloneFailed))
                  /\ repo_contents' = repo_contents
               \/ /\ processed_count(files_content(url)) = 0
                  /\ proc' = process_done(c, url,
                                 ts_route_error_response(
                                     [class |-> "ValueError", text |-> NoTsFilesError]))
                  /\ repo_contents' = repo_contents
               \/ /\ processed_count(files_content(url)) # 0
                  /\ repo_contents' = dict_set(repo_contents, c, join(files_content(url), "\n"))
                  /\ \/ proc' = process_done(c, url, SuccessResponse)
                     \/ \E e \in WriteErrors :
                           proc' = process_done(c, url, ts_route_error_response(e))
    /\ RepoUnchanged

\* lines 165-201 and 253-281: a /chat request: no repository is loaded for
\* the chat, or the chat model answers from its content, or fails
RepoAsk ==
    /\ \E c \in Chats :
          IF c \notin DOMAIN repo_contents
          THEN proc' = [op |-> "ask", chat |-> c, context |-> None,
                        response |-> ts_route_error_response(
                                         [class |-> "ValueError", text |-> NotLoadedError]),
                        loaded |-> proc.loaded]
          ELSE \/ proc' = [op |-> "ask", chat |-> c, context |-> repo_contents[c],
                           response |-> [status |-> 200, body |-> "response"],
                           loaded |-> proc.loaded]
               \/ \E e \in CollaboratorErrors :
                     proc' = [op |-> "ask", chat |-> c, context |-> repo_contents[c],
                              response |-> ts_route_error_response(e),
                              loaded |-> proc.loaded]
    /\ repo_contents' = repo_contents
    /\ RepoUnchanged

\* lines 240-246: the lines of the content that start with 'File: '
listed_files(text) ==
    LET lines == split(text, "\n")
    IN  { strip(From(lines[i], 7)) : i \in { j \in 1..Len(lines) : Lit(lines[j], 1, "File: ") } }

\* lines 228-251: a /files request
RepoFiles ==
    /\ \E c \in Chats :
          proc' = [op |-> "files", chat |-> c,
                   response |-> [status |-> 200,
                                 files |-> IF c \notin DOMAIN repo_contents THEN {}
                                           ELSE listed_files(repo_contents[c])],
                   loaded |-> proc.loaded]
    /\ repo_contents' = repo_contents
    /\ RepoUnchanged

RepoNext ==
    \/ ProcessRepository
    \/ RepoAsk
    \/ RepoFiles

SpecRepo == RepoInit /\ [][RepoNext]_vars

\* C30: a process_repository call for chat c that raises (invalid URL, clone
\* failure, no valid file, failure while saving the text dump) leaves
\* repo_contents[c] as it was before the call: a later ask or file listing
\* for c answers from the repository loaded last with success, and an ask
\* fails with 'Repository not loaded' if there is none
C30_FailedProcessKeepsContents ==
    /\ (proc.op = "load" /\ proc.response.status # 200) =>
          dict_get(repo_contents, proc.chat) = proc.before
    /\ proc.op = "ask" =>
          IF proc.loaded[proc.chat] = None
          THEN proc.response = ErrorResponse(400, NotLoadedError)
          ELSE proc.context = proc.loaded[proc.chat]
    /\ proc.op = "files" =>
          proc.response.files = IF proc.loaded[proc.chat] = None THEN {}
                                ELSE listed_files(proc.loaded[proc.chat])

====
